---------------------------- MODULE Spec2Model ----------------------------
(***************************************************************************)
(* TWCManager.py: RS-485 framing, the receive loop, the slave registry and *)
(* the master-mode bus loop.                                               *)
(*                                                                         *)
(* Time is counted in ticks of 25 ms, the shortest sleep of the program.   *)
(* The program reads its timestamps only through differences               *)
(* (time.time() - timeLastTx, time.time() - slaveTWC.timeLastRx,           *)
(* now - timeMsgRxStart), so each timestamp is kept as its age, saturated  *)
(* just above the largest threshold it is compared with.                   *)
(* Amperages are kept in centiamperes (the unit of the wire).              *)
(***************************************************************************)
EXTENDS Integers, Sequences, FiniteSets, TLC

----------------------------------------------------------------------------
(* Bytes with a meaning in the framing. *)
C0 == 192
DB == 219
DC == 220
DD == 221

(* Bounds of the codec harness. *)
MaxSpecial == 2

(* Logical payload lengths handed to send_msg (13 for protocol 1, 15 for 2). *)
PayloadLens == {13, 15}

SpecialBytes == {C0, DB, DC, DD}

----------------------------------------------------------------------------
(* Pure helpers on byte sequences. *)

RECURSIVE SumBytes(_)
SumBytes(s) == IF s = <<>> THEN 0 ELSE Head(s) + SumBytes(Tail(s))

(* send_msg: checksum of every byte but the first, truncated to 8 bits. *)
TxChecksum(m) == SumBytes(Tail(m)) % 256

(* send_msg: the escaping loop; C0 becomes DB DC and DB becomes DB DD. *)
RECURSIVE Escape(_)
Escape(s) ==
    IF s = <<>> THEN <<>>
    ELSE IF Head(s) = C0 THEN <<DB, DC>> \o Escape(Tail(s))
    ELSE IF Head(s) = DB THEN <<DB, DD>> \o Escape(Tail(s))
    ELSE <<Head(s)>> \o Escape(Tail(s))

(* send_msg escaping the message before the checksum byte is appended. *)
WireBytesChecksumRaw(m) == <<C0>> \o Escape(m) \o <<TxChecksum(m)>> \o <<C0>>

(* send_msg: the bytes written to the serial port for message m. *)
WireBytes(m) == <<C0>> \o Escape(Append(m, TxChecksum(m))) \o <<C0>>

(* unescape_msg: the in-place loop.  DB DC becomes C0, DB DD becomes DB, DB
   followed by anything else becomes DB and the follower is dropped.  A DB in
   the last position reads msg[i+1] past the end (IndexError); the receive
   loop only hands over buffers ending in C0, so that case is kept apart. *)
RECURSIVE UnescapeLoop(_)
UnescapeLoop(s) ==
    IF s = <<>> THEN <<>>
    ELSE IF Head(s) = DB /\ Len(s) >= 2
         THEN <<(IF s[2] = DC THEN C0 ELSE DB)>> \o UnescapeLoop(Tail(Tail(s)))
    ELSE <<Head(s)>> \o UnescapeLoop(Tail(s))

(* unescape_msg without the DB DD case: both escapes decode to C0. *)
unescape_msg_once(m, n) ==
    LET RECURSIVE U(_)
        U(s) == IF s = <<>> THEN <<>>
                ELSE IF Head(s) = DB /\ Len(s) >= 2
                     THEN <<C0>> \o U(Tail(Tail(s)))
                ELSE <<Head(s)>> \o U(Tail(s))
        u == U(SubSeq(m, 1, n))
    IN  SubSeq(u, 2, Len(u) - 1)

(* unescape_msg(msg, msgLen): cut to msgLen, unescape, strip both C0. *)
unescape_msg(m, n) ==
    LET u == UnescapeLoop(SubSeq(m, 1, n))
    IN  SubSeq(u, 2, Len(u) - 1)

(* Main loop, frame verification: the length test. *)
LengthOk(m) == Len(m) = 14 \/ Len(m) = 16

(* Main loop, frame verification: sum of msg[1 .. len-2] against msg[len-1]. *)
ChecksumOk(m) ==
    Len(m) >= 2 /\ SumBytes(SubSeq(m, 2, Len(m) - 1)) % 256 = m[Len(m)]


----------------------------------------------------------------------------
(* Time, in ticks of 25 ms. *)
Sleep25 == 1
Sleep100 == 4
HeartbeatPeriod == 40
SlaveTimeout == 1040
RxTimeout == 80
ErrorSleep == 200

(* Configuration (config.json): master mode, amperages in centiamperes. *)
fakeMaster == 1
wiringMaxAmpsPerTWC == 4000

(* Bounds of the bus-loop model: outer loop iterations explored, bursts the
   slaves put on the bus. *)
MaxIter == 11
MaxFrames == 4

Min(a, b) == IF a < b THEN a ELSE b

(* time.time() - t after d more ticks, saturated at cap. *)
Aged(age, d, cap) == Min(age + d, cap)

(* time.sleep() returns after the requested time or later: once the startup
   burst is over, the top-of-loop sleep returns on time, or so late that 26 s
   have gone by. *)
Oversleeps(n) == IF n > 0 THEN {0} ELSE {0, SlaveTimeout - Sleep25}

----------------------------------------------------------------------------
(* TWC ids on the bus.  One of them contains both bytes that need escaping. *)
OwnID == <<119, 119>>
SlaveIDs == {<<171, 205>>, <<17, 17>>, <<34, 34>>, <<C0, DB>>, <<85, 85>>}
AllIDs == SlaveIDs \cup {OwnID}

Zeros(n) == [i \in 1..n |-> 0]

(* Slave link-ready as a slave builds it (send_slave_linkready): FD E2, id,
   sign, maxAmps big-endian in centiamperes, 6 zeros, 2 more in protocol 2. *)
SlaveLinkReady(id, sign, amps, version) ==
    <<253, 226>> \o id \o <<sign>> \o <<amps \div 256, amps % 256>>
        \o Zeros(IF version = 2 THEN 8 ELSE 6)

(* A frame whose checksum byte is wrong. *)
BadChecksum(m) ==
    <<C0>> \o Escape(Append(m, (TxChecksum(m) + 1) % 256)) \o <<C0>>

(* A frame cut short after n bytes. *)
Truncated(m, n) == SubSeq(WireBytes(m), 1, n)

(* What the slaves put on the bus, burst after burst; each burst is one of
   the alternatives: link-readies of both lengths and two ratings, from five
   slaves and from a TWC that has the master's id, a frame with a corrupted
   checksum, a frame cut short; the first slave later repeats its link-ready
   in the other length. *)
EnvTraffic ==
    << { WireBytes(SlaveLinkReady(<<171, 205>>, 119, 8000, 1)),
         Truncated(SlaveLinkReady(<<C0, DB>>, 20, 3200, 1), 4) },
       { WireBytes(SlaveLinkReady(<<C0, DB>>, 20, 3200, 1)),
         WireBytes(SlaveLinkReady(<<17, 17>>, 18, 3200, 2)) },
       { WireBytes(SlaveLinkReady(<<34, 34>>, 19, 8000, 2)),
         BadChecksum(SlaveLinkReady(<<34, 34>>, 19, 8000, 2)) },
       { WireBytes(SlaveLinkReady(<<85, 85>>, 21, 3200, 2)),
         WireBytes(SlaveLinkReady(OwnID, 119, 8000, 1)),
         WireBytes(SlaveLinkReady(<<171, 205>>, 119, 8000, 2)) },
       { WireBytes(SlaveLinkReady(<<171, 205>>, 119, 8000, 1)) },
       { WireBytes(SlaveLinkReady(<<C0, DB>>, 20, 3200, 1)) } >>

(* lastTWCResponseMsg = None *)
None == <<256>>

(* The hexadecimal digits the web page writes for the bytes b. *)
HexDigits(b) ==
    [i \in 1..(2 * Len(b)) |->
        IF i % 2 = 1 THEN b[(i + 1) \div 2] \div 16 ELSE b[i \div 2] % 16]

(* sendTWCMsg=<hex> requests of the web interface, hex as its digits. *)
sendTWCMsg(hex) == [cmd |-> "sendTWCMsg", hex |-> hex]

WebHex == { sendTWCMsg(HexDigits(<<251, 235, 119, 119, 171, 205>>)) }

(* webIPCqueue.receive raising BusyError: no request is waiting. *)
NoRequest == [cmd |-> "none", hex |-> <<>>]

(* What the web phase of one iteration finds. *)
WebRequests == {NoRequest} \cup WebHex


----------------------------------------------------------------------------
VARIABLES
    pc,                          \* position of the main thread in its loop
    iter,                        \* outer loop iterations started
    numInitMsgsToSend,
    sinceLastTx,                 \* time.time() - timeLastTx
    fakeTWCID,
    slaveTWCs,                   \* keys of the dict slaveTWCs
    slaveTWCRoundRobin,          \* the list, as the ids of its TWCSlave objects
    twc,                         \* the TWCSlave objects, by id
    idxSlaveToSendNextHeartbeat,
    spikeAmpsToCancel6ALimit,
    lastTWCResponseMsg,
    serIn,                       \* unread bytes of the serial port
    framesSent,                  \* bursts the slaves have put on the bus
    msg, msgLen,
    msgIsBytes,                  \* msg is an immutable bytes object (msg = data)
    lastTx,                      \* the last ser.write and what preceded it
    serOut,                      \* bytes of the last ser.write
    stepTx,                      \* messages written since the top of the loop
    sentLinkReady1, sentLinkReady2,   \* startup frames written so far
    codecIn, codecOut,           \* codec harness: payload sent, frame delivered
    backgroundTasksQueue,        \* queue.Queue of tasks, oldest first
    backgroundTasksCmds,         \* keys of the dict backgroundTasksCmds
    busPc,                       \* position of the main thread in queue_background_task
    busTask,                     \* the task it was called with
    bgPc,                        \* position of background_tasks_thread
    bgTask,                      \* task the background thread holds
    backgroundTasksLock,         \* holder of the lock
    master,                      \* the TWCMaster object
    greenEnergyAmpsOffset,       \* config['config']['greenEnergyAmpsOffset']
    maxAmpsToDivideAmongSlaves,
    chargeNowAmps, chargeNowTimeEnd,
    nonScheduledAmpsMax,
    scheduledAmpsMax, scheduledAmpsStartHour, scheduledAmpsEndHour,
    now,                         \* time.time(), in half days
    minAmpsPerTWC,               \* config['config']['minAmpsPerTWC']
    spikeDue,                    \* sessions whose next heartbeat carries the spike
    hbAmps,                      \* amperage field of the last heartbeat built
    unfinished_tasks,            \* backgroundTasksQueue.unfinished_tasks
    webMsg,                      \* the request the web phase received last
    webResponseMsg,              \* the last response sent to the web interface
    serIsOpen,                   \* ser.is_open
    slaveSign,
    configFakeMaster,            \* config['config']['fakeMaster']
    vehicle,                     \* the CarApiVehicle object: its wake bookkeeping
    carTime,                     \* time.time() in seconds, as car_api_available reads it
    wake                         \* the last wake attempt: when, the state reported, what was printed

regVars == <<slaveTWCs, slaveTWCRoundRobin, twc, idxSlaveToSendNextHeartbeat>>
rxVars == <<serIn, msg, msgLen, msgIsBytes>>
txVars == <<sinceLastTx, lastTx, serOut, stepTx, sentLinkReady1,
            sentLinkReady2>>
carVars == <<vehicle, carTime, wake>>
envVars == <<framesSent, carVars>>
webVars == <<webMsg, webResponseMsg>>
slaveVars == <<slaveSign, configFakeMaster>>
codecVars == <<codecIn, codecOut>>
taskVars == <<backgroundTasksQueue, backgroundTasksCmds, busPc, busTask, bgPc,
              bgTask, backgroundTasksLock>>
greenVars == <<master, greenEnergyAmpsOffset, maxAmpsToDivideAmongSlaves>>
policyVars == <<chargeNowAmps, chargeNowTimeEnd, nonScheduledAmpsMax,
                scheduledAmpsMax, scheduledAmpsStartHour,
                scheduledAmpsEndHour, now>>
allocVars == <<minAmpsPerTWC, spikeDue, hbAmps>>
exitVars == <<unfinished_tasks, serIsOpen>>
bgVars == <<taskVars, greenVars, policyVars, allocVars, exitVars>>
busVars == <<pc, iter, numInitMsgsToSend, fakeTWCID, spikeAmpsToCancel6ALimit,
             lastTWCResponseMsg, regVars, rxVars, txVars, envVars, codecVars,
             webVars, slaveVars>>
vars == <<busVars, bgVars>>

----------------------------------------------------------------------------
(* car_api_available: waking a vehicle.  Times are in seconds. *)

(* What the wake_up call reports: response.state, or 'error' when the
   response cannot be read. *)
CarStates == {"online", "asleep", "waking", "offline", "error"}

(* time.time() when the program starts looking after the vehicle. *)
CarStart == 1000

(* Instants at which car_api_available is called: either side of 25 s, 30 s,
   10 min, 31 min, 60 min and 70 min after CarStart, and later. *)
WakeTimes ==
    { CarStart + d : d \in {0, 25, 26, 31, 600, 601, 1860, 1861, 3600, 3601,
                            4200, 4201, 5200} }

(* A vehicle that has not been woken yet: firstWakeAttemptTime = 0 is what
   the code tests for "no failed attempt so far". *)
NewVehicle ==
    [firstWakeAttemptTime |-> 0, lastWakeAttemptTime |-> 0,
     delayNextWakeAttempt |-> 0]

NoWake ==
    [at |-> 0, attempted |-> FALSE, state |-> "none", reported |-> FALSE]

InitCar ==
    /\ vehicle = NewVehicle
    /\ carTime = CarStart
    /\ wake = NoWake

(* The delay the asleep and waking branch sets. *)
AsleepDelay(age) ==
    IF age <= 10 * 60 THEN 30
    ELSE IF age <= 70 * 60 THEN 5 * 60
    ELSE 15 * 60

(* delayNextWakeAttempt after a wake_up that reported state at time t;
   knownError: the response's error starts with one of
   carapi.getCarApiTransientErrors().  The offline branch has no else: after
   31 min the delay stays what it was. *)
NextWakeDelay(v, t, state, knownError) ==
    LET age == t - v.firstWakeAttemptTime IN
    IF state \in {"asleep", "waking"} THEN AsleepDelay(age)
    ELSE IF state = "offline"
         THEN IF age <= 31 * 60 THEN 25 ELSE v.delayNextWakeAttempt
    ELSE IF age <= 60 * 60
         THEN IF knownError THEN 60 ELSE 5 * 60
    ELSE 15 * 60

(* The vehicle after the wake_up call at time t. *)
AfterWake(v, t, state, knownError) ==
    IF state = "online"
    THEN [v EXCEPT !.lastWakeAttemptTime = t, !.firstWakeAttemptTime = 0,
                   !.delayNextWakeAttempt = 0]
    ELSE LET first == [v EXCEPT !.lastWakeAttemptTime = t,
                                !.firstWakeAttemptTime =
                                    IF @ = 0 THEN t ELSE @]
         IN  [first EXCEPT !.delayNextWakeAttempt =
                               NextWakeDelay(first, t, state, knownError)]

(* "ERROR: We have failed to wake a car ..." is printed. *)
WakeFailureReported(v, t) ==
    v.firstWakeAttemptTime > 0 /\ t - v.firstWakeAttemptTime > 60 * 60

(* One call of car_api_available that reaches the vehicle (a bearer token
   and the vehicle list are there, no recent API error).  vehicle.ready() is
   code outside src/: the call may skip the vehicle; else it returns False
   while the delay since the last attempt has not passed, and sends wake_up
   after that. *)
WakeVehicle ==
    /\ \E ready \in BOOLEAN, state \in CarStates, knownError \in BOOLEAN :
         IF ready \/ carTime - vehicle.lastWakeAttemptTime
                         <= vehicle.delayNextWakeAttempt
         THEN /\ wake' = [wake EXCEPT !.attempted = FALSE]
              /\ UNCHANGED vehicle
         ELSE /\ vehicle' = AfterWake(vehicle, carTime, state, knownError)
              /\ wake' = [at |-> carTime, attempted |-> TRUE, state |-> state,
                          reported |-> WakeFailureReported(vehicle', carTime)]
    /\ UNCHANGED <<carTime, pc, iter, numInitMsgsToSend, fakeTWCID,
                   spikeAmpsToCancel6ALimit, lastTWCResponseMsg, regVars,
                   rxVars, txVars, framesSent, codecVars, webVars, slaveVars,
                   bgVars>>

(* Time passes between two calls. *)
CarClock ==
    /\ \E t \in WakeTimes : t > carTime /\ carTime' = t
    /\ UNCHANGED <<vehicle, wake, pc, iter, numInitMsgsToSend, fakeTWCID,
                   spikeAmpsToCancel6ALimit, lastTWCResponseMsg, regVars,
                   rxVars, txVars, framesSent, codecVars, webVars, slaveVars,
                   bgVars>>

----------------------------------------------------------------------------
(* TWCSlave objects. *)

(* Placeholder for an id that has no TWCSlave object. *)
NoSlave ==
    [maxAmps |-> 0, protocolVersion |-> 0, minAmpsTWCSupports |-> 0,
     wiringMaxAmps |-> 0, sinceLastRx |-> 0, lastAmpsOffered |-> 0,
     reportedAmpsActual |-> 0]

(* TWCSlave(newSlaveID, maxAmps, carapi): a fresh session. *)
TWCSlave(maxAmps) ==
    [maxAmps |-> maxAmps, protocolVersion |-> 1, minAmpsTWCSupports |-> 6,
     wiringMaxAmps |-> wiringMaxAmpsPerTWC, sinceLastRx |-> 0,
     lastAmpsOffered |-> 0, reportedAmpsActual |-> 0]

(* The registry as one value: the dict's keys, the list, the objects. *)
Registry == [keys |-> slaveTWCs, rr |-> slaveTWCRoundRobin, obj |-> twc]

RECURSIVE RemoveFirst(_, _)
RemoveFirst(s, id) ==
    IF s = <<>> THEN <<>>
    ELSE IF Head(s) = id THEN Tail(s)
    ELSE <<Head(s)>> \o RemoveFirst(Tail(s), id)

(* delete_slave that leaves the list as it is. *)
delete_slave_key_only(r, id) ==
    [keys |-> r.keys \ {id},
     rr |-> r.rr,
     obj |-> [r.obj EXCEPT ![id] = NoSlave]]

(* delete_slave that forgets the dict entry. *)
delete_slave_list_only(r, id) ==
    [r EXCEPT !.rr = RemoveFirst(r.rr, id)]

(* delete_slave(deleteSlaveID): first list entry with that id, then the key.
   An object reachable from neither is dropped. *)
delete_slave(r, id) ==
    [keys |-> r.keys \ {id},
     rr |-> RemoveFirst(r.rr, id),
     obj |-> [r.obj EXCEPT ![id] = NoSlave]]

(* new_slave without the limit of 3. *)
new_slave_no_limit(r, id, maxAmps) ==
    IF id \in r.keys THEN r
    ELSE [keys |-> r.keys \cup {id},
          rr |-> Append(r.rr, id),
          obj |-> [r.obj EXCEPT ![id] = TWCSlave(maxAmps)]]

(* new_slave(newSlaveID, maxAmps): the registry after the call; the object
   returned is the one with id newSlaveID. *)
new_slave(r, id, maxAmps) ==
    IF id \in r.keys THEN r
    ELSE LET a == [keys |-> r.keys \cup {id},
                   rr |-> Append(r.rr, id),
                   obj |-> [r.obj EXCEPT ![id] = TWCSlave(maxAmps)]]
         IN  IF Len(a.rr) > 3 THEN delete_slave(a, a.rr[1]) ELSE a

(* Every registered session d ticks later. *)
AgedSlaves(obj, d) ==
    [id \in AllIDs |->
        IF obj[id] = NoSlave THEN NoSlave
        ELSE [obj[id] EXCEPT !.sinceLastRx = Aged(@, d, SlaveTimeout + 1)]]


----------------------------------------------------------------------------
(* Frames the master builds. *)
masterSign == <<119>>

(* send_master_linkready1 / send_master_linkready2 *)
MasterLinkReady1 == <<252, 225>> \o fakeTWCID \o masterSign \o Zeros(8)
MasterLinkReady2 == <<251, 226>> \o fakeTWCID \o masterSign \o Zeros(8)

(* TWCSlave.send_master_heartbeat: FB E0, master id, slave id, the command
   bytes (7, or 9 in protocol 2), with amps bytes 00 00. *)
MasterHeartbeat(id, version) ==
    <<251, 224>> \o fakeTWCID \o id \o Zeros(IF version = 2 THEN 9 ELSE 7)

(* trim_pad(s, makeLen) *)
trim_pad(s, makeLen) ==
    IF Len(s) >= makeLen THEN SubSeq(s, 1, makeLen)
    ELSE s \o Zeros(makeLen - Len(s))

(* What send_msg leaves behind: the message, the time since the write before
   it, and what the receive side held at the moment of ser.write. *)
TxRecord(m, via, partial) ==
    [msg |-> m, via |-> via, prevVia |-> lastTx.via, gap |-> sinceLastTx,
     pending |-> serIn # <<>>, partial |-> partial]

(* send_msg(msg), but for timeLastTx, which the caller ages by the sleep that
   follows the call. *)
send_msg(m, via, partial) ==
    /\ serOut' = WireBytes(m)
    /\ lastTx' = TxRecord(m, via, partial)
    /\ stepTx' = Append(stepTx, m)

NoTx ==
    [msg |-> <<>>, via |-> "none", prevVia |-> "none", gap |-> HeartbeatPeriod,
     pending |-> FALSE, partial |-> 0]

----------------------------------------------------------------------------
(* Background tasks and the green-energy budget.  Power is in watts, amperage
   in centiamperes except where the code keeps whole amperes. *)

(* config['config']['wiringMaxAmpsAllTWCs'], in centiamperes *)
wiringMaxAmpsAllTWCs == 6000

(* 60*60*24 seconds, in half days *)
ChargeNowDuration == 2

(* Half days the clock advances at most. *)
MaxNow == 3

(* The tasks the bus thread hands to queue_background_task; charge is the
   argument of a 'charge' task and unused by the others. *)
Tasks ==
    { [cmd |-> "charge", charge |-> TRUE],
      [cmd |-> "charge", charge |-> FALSE],
      [cmd |-> "carApiEmailPassword", charge |-> FALSE],
      [cmd |-> "checkGreenEnergy", charge |-> FALSE] }

NoTask == [cmd |-> "none", charge |-> FALSE]

(* Values of config['config']['greenEnergyAmpsOffset'], in centiamperes. *)
GreenOffsets == {-100, 0}

(* Values of totalAmpsInUse, in centiamperes. *)
AmpsInUse == {0, 1000}

(* One reading of the inverter and of HomeAssistant, in watts: fronius
   consumption and generation, hass consumption and generation.  Sensors
   report negative power when the flow reverses. *)
Samples ==
    { [fc |-> 0,    fg |-> 0,     hc |-> 0,    hg |-> 0],
      [fc |-> 1200, fg |-> 4800,  hc |-> 0,    hg |-> 0],
      [fc |-> 1200, fg |-> 24000, hc |-> 0,    hg |-> -240],
      [fc |-> 1200, fg |-> 0,     hc |-> 0,    hg |-> -240],
      [fc |-> 0,    fg |-> 4800,  hc |-> -480, hg |-> 0],
      [fc |-> 6000, fg |-> 4800,  hc |-> 0,    hg |-> 0] }

(* Python dicts keyed by source name. *)
EmptyDict == [k \in {} |-> 0]

DictSet(d, k, v) ==
    [x \in (DOMAIN d) \cup {k} |-> IF x = k THEN v ELSE d[x]]

(* for key in d: total += float(d[key]) *)
RECURSIVE SumValues(_)
SumValues(d) ==
    IF DOMAIN d = {} THEN 0
    ELSE LET k == CHOOSE x \in DOMAIN d : TRUE IN
         d[k] + SumValues([x \in (DOMAIN d) \ {k} |-> d[x]])

(* TWCMaster(TWCID, config) *)
TWCMaster(subtract, amps) ==
    [consumptionValues |-> EmptyDict, generationValues |-> EmptyDict,
     subtractChargerLoad |-> subtract, totalAmpsInUse |-> amps]

(* TWCMaster.getChargerLoad, in watts *)
getChargerLoad(m) == (m.totalAmpsInUse * 240) \div 100

(* TWCMaster.getConsumption *)
getConsumption(m) ==
    LET consumptionVal == SumValues(m.consumptionValues) IN
    IF consumptionVal < 0 THEN 0 ELSE consumptionVal

(* TWCMaster.getGeneration *)
getGeneration(m) ==
    LET generationVal == SumValues(m.generationValues) IN
    IF generationVal < 0 THEN 0 ELSE generationVal

(* An offset that goes negative when the chargers draw more than the house
   consumes. *)
getGenerationOffsetUnclamped(m) ==
    getConsumption(m) - (IF m.subtractChargerLoad THEN getChargerLoad(m) ELSE 0)

(* TWCMaster.getGenerationOffset *)
getGenerationOffset(m) ==
    LET generationOffset ==
            getConsumption(m)
              - (IF m.subtractChargerLoad THEN getChargerLoad(m) ELSE 0)
    IN IF generationOffset < 0 THEN 0 ELSE generationOffset

(* TWCMaster.getMaxAmpsToDivideAmongSlaves: solarW / 240, in centiamperes.
   The readings are multiples of 12 W, for which the quotient is a whole
   number of centiamperes. *)
getMaxAmpsToDivideAmongSlaves(m) ==
    LET solarW == getGeneration(m) - getGenerationOffset(m) IN
    ((IF solarW < 0 THEN 0 ELSE solarW) * 100) \div 240

(* The globals and objects the background side starts with. *)
InitBackgroundWith(subtract, amps, offset) ==
    /\ minAmpsPerTWC = 600
    /\ spikeDue = {}
    /\ hbAmps = 0
    /\ unfinished_tasks = 0
    /\ serIsOpen = TRUE
    /\ backgroundTasksQueue = <<>>
    /\ backgroundTasksCmds = {}
    /\ busPc = "idle"
    /\ busTask = NoTask
    /\ bgPc = "get"
    /\ bgTask = NoTask
    /\ backgroundTasksLock = "free"
    /\ master = TWCMaster(subtract, amps)
    /\ greenEnergyAmpsOffset = offset
    /\ maxAmpsToDivideAmongSlaves = 0
    /\ chargeNowAmps = 0
    /\ chargeNowTimeEnd = 0
    /\ nonScheduledAmpsMax = -1
    /\ scheduledAmpsMax = -1
    /\ scheduledAmpsStartHour = -1
    /\ scheduledAmpsEndHour = -1
    /\ now = 1

InitBackground == InitBackgroundWith(FALSE, 0, 0)

----------------------------------------------------------------------------
(* State after the globals are initialised and the port is opened. *)
InitLoopIn(mode) ==
    /\ iter = 0
    /\ numInitMsgsToSend = 10
    /\ sinceLastTx = HeartbeatPeriod      \* timeLastTx = 0
    /\ fakeTWCID = OwnID
    /\ slaveTWCs = {}
    /\ slaveTWCRoundRobin = <<>>
    /\ twc = [id \in AllIDs |-> NoSlave]
    /\ idxSlaveToSendNextHeartbeat = 0
    /\ spikeAmpsToCancel6ALimit = 16
    /\ lastTWCResponseMsg = None
    /\ serIn = <<>>
    /\ framesSent = 0
    /\ InitCar
    /\ msg = <<>>
    /\ msgLen = 0
    /\ msgIsBytes = FALSE
    /\ lastTx = NoTx
    /\ stepTx = <<>>
    /\ sentLinkReady1 = 0
    /\ sentLinkReady2 = 0
    /\ serOut = <<>>
    /\ webMsg = NoRequest
    /\ webResponseMsg = <<>>
    /\ slaveSign = <<119>>
    /\ configFakeMaster = mode

(* Master mode. *)
InitLoop == InitLoopIn(fakeMaster)

Init ==
    /\ pc = "top"
    /\ InitLoop
    /\ InitBackground
    /\ codecIn = <<>>
    /\ codecOut = <<>>

----------------------------------------------------------------------------
(* The slaves: a burst of bytes reaches the serial input while the main
   thread sleeps at the top of its loop, where it spends nearly all of the
   time left by the bus. *)
SerialArriveFrom(traffic) ==
    /\ framesSent < MaxFrames
    /\ framesSent < Len(traffic)
    /\ pc = "top"
    /\ \E chunk \in traffic[framesSent + 1] : serIn' = serIn \o chunk
    /\ framesSent' = framesSent + 1
    /\ UNCHANGED <<carVars, pc, iter, numInitMsgsToSend, fakeTWCID,
                   spikeAmpsToCancel6ALimit, lastTWCResponseMsg, regVars,
                   msg, msgLen, msgIsBytes, txVars,
                   codecVars, bgVars, webVars, slaveVars>>

SerialArrive == SerialArriveFrom(EnvTraffic)

(* Top of the loop: time.sleep(0.025); now = time.time(). *)
SleepFor(oversleeps) ==
    /\ pc = "top"
    /\ iter < MaxIter
    /\ \E o \in oversleeps :
         LET d == Sleep25 + o IN
         /\ sinceLastTx' = Aged(sinceLastTx, d, HeartbeatPeriod)
         /\ twc' = AgedSlaves(twc, d)
    /\ iter' = iter + 1
    /\ pc' = "tx"
    /\ stepTx' = <<>>
    /\ UNCHANGED <<numInitMsgsToSend, fakeTWCID, spikeAmpsToCancel6ALimit,
                   lastTWCResponseMsg, slaveTWCs, slaveTWCRoundRobin,
                   idxSlaveToSendNextHeartbeat, rxVars, lastTx, serOut,
                   sentLinkReady1, sentLinkReady2, envVars, codecVars, bgVars, webVars, slaveVars>>

Sleep == SleepFor(Oversleeps(numInitMsgsToSend))

----------------------------------------------------------------------------
(* Periodic transmit phase of the loop (master mode). *)

(* Startup frame that also sends linkready1 for the 5th remaining message. *)
StartupFrameLate(n) == IF n > 4 THEN MasterLinkReady1 ELSE MasterLinkReady2

(* The startup frame sent while n startup messages remain. *)
StartupFrame(n) == IF n > 5 THEN MasterLinkReady1 ELSE MasterLinkReady2

(* A silence test that never fires. *)
NeverSilent(age) == FALSE

(* time.time() - slaveTWC.timeLastRx > 26 *)
SilentTooLong(age) == age > SlaveTimeout

(* A cursor that is incremented and never wrapped. *)
NextCursorNoWrap(idx, n) == idx + 1

(* A cursor that stays where it is. *)
SameCursor(idx, n) == idx

(* The cursor after a tick, for a list of n entries. *)
NextCursor(idx, n) == IF idx + 1 >= n THEN 0 ELSE idx + 1

(* time.sleep(0.1) that returns at once. *)
NoSleepAfterTx(age) == age

(* time.sleep(0.1) after a periodic frame: the age of a timestamp after it. *)
SleepAfterTx(age) == age + Sleep100

(* An unhandled exception: the rest of the iteration is skipped,
   traceback.print_exc(), time.sleep(5), next iteration. *)
Unhandled ==
    /\ pc' = "top"
    /\ sinceLastTx' = Aged(sinceLastTx, ErrorSleep, HeartbeatPeriod)
    /\ twc' = AgedSlaves(twc, ErrorSleep)

PeriodicTx ==
    /\ pc = "tx"
    /\ fakeMaster = 1
    /\ IF numInitMsgsToSend > 0
       THEN LET m == StartupFrame(numInitMsgsToSend) IN
            /\ send_msg(m, "startup", msgLen)
            /\ sinceLastTx' = Min(SleepAfterTx(0), HeartbeatPeriod)
            /\ twc' = AgedSlaves(twc, SleepAfterTx(0))
            /\ numInitMsgsToSend' = numInitMsgsToSend - 1
            /\ sentLinkReady1' = sentLinkReady1 + (IF m = MasterLinkReady1 THEN 1 ELSE 0)
            /\ sentLinkReady2' = sentLinkReady2 + (IF m = MasterLinkReady2 THEN 1 ELSE 0)
            /\ pc' = "web"
            /\ UNCHANGED <<slaveTWCs, slaveTWCRoundRobin,
                           idxSlaveToSendNextHeartbeat>>
       ELSE IF sinceLastTx >= HeartbeatPeriod /\ Len(slaveTWCRoundRobin) > 0
       THEN IF idxSlaveToSendNextHeartbeat >= Len(slaveTWCRoundRobin)
            THEN \* slaveTWCRoundRobin[idx] raises IndexError
                 /\ Unhandled
                 /\ UNCHANGED <<numInitMsgsToSend, slaveTWCs, slaveTWCRoundRobin,
                                idxSlaveToSendNextHeartbeat, lastTx, serOut,
                                stepTx, sentLinkReady1, sentLinkReady2>>
            ELSE LET id == slaveTWCRoundRobin[idxSlaveToSendNextHeartbeat + 1]
                     silent == SilentTooLong(twc[id].sinceLastRx)
                     r == IF silent THEN delete_slave(Registry, id) ELSE Registry
                     m == MasterHeartbeat(id, twc[id].protocolVersion)
                 IN
                 /\ slaveTWCs' = r.keys
                 /\ slaveTWCRoundRobin' = r.rr
                 /\ twc' = AgedSlaves(r.obj, SleepAfterTx(0))
                 /\ idxSlaveToSendNextHeartbeat' =
                        NextCursor(idxSlaveToSendNextHeartbeat, Len(r.rr))
                 /\ IF silent
                    THEN /\ sinceLastTx' =
                                Min(SleepAfterTx(sinceLastTx), HeartbeatPeriod)
                         /\ UNCHANGED <<lastTx, serOut, stepTx>>
                    ELSE /\ send_msg(m, "periodic", msgLen)
                         /\ sinceLastTx' = Min(SleepAfterTx(0), HeartbeatPeriod)
                 /\ pc' = "web"
                 /\ UNCHANGED <<numInitMsgsToSend, sentLinkReady1,
                                sentLinkReady2>>
       ELSE /\ pc' = "web"
            /\ UNCHANGED <<numInitMsgsToSend, regVars, txVars>>
    /\ UNCHANGED <<iter, fakeTWCID, spikeAmpsToCancel6ALimit,
                   lastTWCResponseMsg, rxVars, envVars, codecVars, bgVars, webVars, slaveVars>>

----------------------------------------------------------------------------
(* Web interface phase: webIPCqueue.receive; no request waiting raises
   BusyError, which is passed over. *)

(* The test without its elif for FB E8. *)
DangerousPrefixBrickOnly(m) ==
    SubSeq(m, 1, 2) \in {<<252, 25>>, <<252, 26>>}

(* twcMsg[0:2] is FC 19 or FC 1A (could disable the TWC) or FB E8 (could
   crash it). *)
DangerousPrefix(m) ==
    SubSeq(m, 1, 2) \in {<<252, 25>>, <<252, 26>>, <<251, 232>>}

(* The padded length sendTWCMsg uses. *)
SendTWCMsgLen ==
    IF Len(slaveTWCRoundRobin) = 0
       \/ twc[slaveTWCRoundRobin[1]].protocolVersion = 2
    THEN 15 ELSE 13

(* bytearray.fromhex(hex) for an even number of digits. *)
fromhex(hex) ==
    [i \in 1..(Len(hex) \div 2) |-> hex[2 * i - 1] * 16 + hex[2 * i]]

(* The character of the hexadecimal digit d, upper case, as its code. *)
HexChar(d) == IF d < 10 THEN 48 + d ELSE 55 + d

(* hex_str(ba): "{:02X}" of each byte, joined by spaces; the string as the
   codes of its characters. *)
hex_str(ba) ==
    [i \in 1..(IF Len(ba) = 0 THEN 0 ELSE 3 * Len(ba) - 1) |->
        IF i % 3 = 1 THEN HexChar(ba[(i + 2) \div 3] \div 16)
        ELSE IF i % 3 = 2 THEN HexChar(ba[(i + 1) \div 3] % 16)
        ELSE 32]

(* The string 'None'. *)
NoneStr == <<78, 111, 110, 101>>

(* The response to getLastTWCMsgResponse. *)
getLastTWCMsgResponse ==
    IF lastTWCResponseMsg # None /\ lastTWCResponseMsg # <<>>
    THEN hex_str(lastTWCResponseMsg)
    ELSE NoneStr

(* The web phase finding one of requests.  webMsg is read only in the
   iteration that received it, so it is cleared when none is received. *)
WebMsgOf(requests) ==
    /\ pc = "web"
    /\ \E req \in requests :
         /\ webMsg' = req
         /\ IF req.cmd = "sendTWCMsg" /\ req.hex # <<>>
            THEN IF Len(req.hex) % 2 = 1
                 THEN \* bytearray.fromhex raises ValueError
                      /\ Unhandled
                      /\ UNCHANGED <<lastTWCResponseMsg, lastTx, serOut, stepTx,
                                     webResponseMsg>>
                 ELSE LET twcMsg == trim_pad(fromhex(req.hex), SendTWCMsgLen) IN
                      /\ IF DangerousPrefix(twcMsg)
                         THEN UNCHANGED <<lastTWCResponseMsg, sinceLastTx,
                                          lastTx, serOut, stepTx>>
                         ELSE /\ lastTWCResponseMsg' = <<>>
                              /\ send_msg(twcMsg, "web", msgLen)
                              /\ sinceLastTx' = 0
                      /\ pc' = "rx"
                      /\ UNCHANGED <<twc, webResponseMsg>>
            ELSE /\ webResponseMsg' =
                        (IF req.cmd = "getLastTWCMsgResponse"
                         THEN getLastTWCMsgResponse ELSE webResponseMsg)
                 /\ pc' = "rx"
                 /\ UNCHANGED <<lastTWCResponseMsg, sinceLastTx, lastTx,
                                serOut, stepTx, twc>>
    /\ UNCHANGED <<iter, numInitMsgsToSend, fakeTWCID, spikeAmpsToCancel6ALimit,
                   slaveTWCs, slaveTWCRoundRobin, idxSlaveToSendNextHeartbeat,
                   serIn, msg, msgLen, msgIsBytes, sentLinkReady1,
                   sentLinkReady2, envVars, codecVars, bgVars, slaveVars>>

WebMsg == WebMsgOf(WebRequests)


----------------------------------------------------------------------------
(* Receive loop. *)

(* The inner while loop run to its break on the bytes already in the serial
   input, from the receive state r.  ser.inWaiting() > 0: one byte is read and
   tested.  ser.inWaiting() = 0: break when no message has begun; else the
   loop sleeps 25 ms a pass until 2 s have gone by since the last byte, and
   gives the partial message up.  waited is the time slept.  msg is not read
   again once msgLen is 0, so it is cleared with it. *)
RECURSIVE RxLoop(_)
RxLoop(r) ==
    IF r.serIn = <<>>
    THEN IF r.msgLen = 0
         THEN r
         ELSE [r EXCEPT !.msgLen = 0, !.msg = <<>>, !.msgIsBytes = FALSE,
                        !.waited = RxTimeout]
    ELSE LET b == Head(r.serIn)
             rest == Tail(r.serIn)
         IN
         IF r.msgLen = 0 /\ b # C0
         THEN \* byte between messages
              RxLoop([r EXCEPT !.serIn = rest])
         ELSE IF r.msgLen > 0 /\ r.msgLen < 15 /\ b = C0
         THEN \* end of message before a full-length message: msg = data
              RxLoop([r EXCEPT !.serIn = rest, !.msg = <<b>>, !.msgLen = 1,
                               !.msgIsBytes = TRUE])
         ELSE LET r2 == [r EXCEPT
                            !.serIn = rest,
                            !.msg = (IF r.msgLen = 0 THEN <<>> ELSE r.msg) \o <<b>>,
                            !.msgLen = r.msgLen + 1,
                            !.msgIsBytes = (r.msgLen # 0 /\ r.msgIsBytes)]
              IN  IF r2.msgLen >= 16 /\ b = C0 THEN r2 ELSE RxLoop(r2)

RxState ==
    [serIn |-> serIn, msg |-> msg, msgLen |-> msgLen,
     msgIsBytes |-> msgIsBytes, waited |-> 0]

Receive ==
    /\ pc = "rx"
    /\ LET r == RxLoop(RxState) IN
       /\ serIn' = r.serIn
       /\ msg' = r.msg
       /\ msgLen' = r.msgLen
       /\ msgIsBytes' = r.msgIsBytes
       /\ sinceLastTx' = Aged(sinceLastTx, r.waited, HeartbeatPeriod)
       /\ twc' = AgedSlaves(twc, r.waited)
       /\ pc' = IF r.msgLen >= 16 THEN "frame" ELSE "top"
    /\ UNCHANGED <<iter, numInitMsgsToSend, fakeTWCID, spikeAmpsToCancel6ALimit,
                   lastTWCResponseMsg, slaveTWCs, slaveTWCRoundRobin,
                   idxSlaveToSendNextHeartbeat, lastTx, serOut, stepTx,
                   sentLinkReady1, sentLinkReady2, envVars, codecVars, bgVars, webVars, slaveVars>>

----------------------------------------------------------------------------
(* A frame has been received (msgLen >= 16 after the receive loop). *)

Range(q) == { q[i] : i \in 1..Len(q) }

(* unescape_msg assigns into msg: on a bytes object the first DB met raises
   TypeError. *)
UnescapeRaises == msgIsBytes /\ DB \in Range(SubSeq(msg, 1, msgLen))

(* A list of excluded types that is empty. *)
NoPeriodicTypes == {}

(* Types never kept in lastTWCResponseMsg. *)
PeriodicTypes ==
    {<<251, 224>>, <<253, 224>>, <<252, 225>>, <<251, 226>>,
     <<253, 226>>, <<251, 235>>, <<253, 235>>}

(* The pattern of the slave link-ready without its two type bytes. *)
IsLinkReadyOfAnyType(m) ==
    /\ Len(m) >= 14
    /\ \A i \in 8..13 : m[i] = 0

(* ^\xfd\xe2(..)(.)(..)\x00\x00\x00\x00\x00\x00.+\Z *)
IsSlaveLinkReady(m) ==
    /\ Len(m) >= 14
    /\ m[1] = 253 /\ m[2] = 226
    /\ \A i \in 8..13 : m[i] = 0

(* ((group(3)[0] << 8) + group(3)[1]) / 100, kept in centiamperes *)
LinkReadyMaxAmps(m) == m[6] * 256 + m[7]

LinkReadySender(m) == SubSeq(m, 3, 4)

(* Version inference that takes every link-ready for protocol 1. *)
InferVersionAlways1(s, len) ==
    IF s.protocolVersion = 1 /\ s.minAmpsTWCSupports = 6
    THEN [s EXCEPT !.protocolVersion = 1, !.minAmpsTWCSupports = 5]
    ELSE s

(* Version inference repeated on every link-ready. *)
InferVersionEveryTime(s, len) ==
    IF len = 14
    THEN [s EXCEPT !.protocolVersion = 1, !.minAmpsTWCSupports = 5]
    ELSE IF len = 16
    THEN [s EXCEPT !.protocolVersion = 2, !.minAmpsTWCSupports = 6]
    ELSE s

(* protocolVersion and minAmpsTWCSupports from the length of the link-ready,
   while the session still has the values it was created with. *)
InferVersion(s, len) ==
    IF s.protocolVersion = 1 /\ s.minAmpsTWCSupports = 6
    THEN IF len = 14
         THEN [s EXCEPT !.protocolVersion = 1, !.minAmpsTWCSupports = 5]
         ELSE IF len = 16
         THEN [s EXCEPT !.protocolVersion = 2, !.minAmpsTWCSupports = 6]
         ELSE s
    ELSE s

(* A wiring check that lowers wiringMaxAmps on every link-ready. *)
CheckWiringAlways(s, maxAmps) ==
    [s EXCEPT !.wiringMaxAmps = maxAmps \div 4]

(* slaveTWC.wiringMaxAmps = maxAmps / 4 when it exceeds maxAmps; the ratings
   on the bus are whole amperes, so the quarter is exact in centiamperes. *)
CheckWiring(s, maxAmps) ==
    IF s.wiringMaxAmps > maxAmps
    THEN [s EXCEPT !.wiringMaxAmps = maxAmps \div 4]
    ELSE s

(* A link-ready handler that answers the head of the list. *)
LinkReadyReplyToHead(r, id) ==
    MasterHeartbeat(r.rr[1], r.obj[r.rr[1]].protocolVersion)

(* slaveTWC.send_master_heartbeat() at the end of the link-ready handler:
   the heartbeat goes to the session new_slave returned. *)
LinkReadyReply(r, id) == MasterHeartbeat(id, r.obj[id].protocolVersion)

(* The registry after the slave link-ready handler: new_slave, the version
   inference, the wiring check, timeLastRx. *)
AfterLinkReady(r, id, maxAmps, len) ==
    LET r1 == new_slave(r, id, maxAmps)
        s1 == CheckWiring(InferVersion(r1.obj[id], len), maxAmps)
    IN  [r1 EXCEPT !.obj[id] = [s1 EXCEPT !.sinceLastRx = 0]]

(* Slave link-ready handler, sender differing from the master's id. *)
HandleSlaveLinkReady(m) ==
    LET id == LinkReadySender(m)
        r2 == AfterLinkReady(Registry, id, LinkReadyMaxAmps(m), Len(m))
    IN
    /\ slaveTWCs' = r2.keys
    /\ slaveTWCRoundRobin' = r2.rr
    /\ twc' = r2.obj
    /\ send_msg(LinkReadyReply(r2, id), "reply", 0)
    /\ sinceLastTx' = 0
    /\ pc' = "top"

(* \A\xfd\xe0(..)(..)(.......+?).\Z *)
IsSlaveHeartbeat(m) == Len(m) >= 14 /\ m[1] = 253 /\ m[2] = 224

(* heartbeatData = msgMatch.group(3) *)
HeartbeatData(m) == SubSeq(m, 7, Len(m) - 1)

(* slaveTWC.receive_slave_heartbeat(heartbeatData): the session notes the
   time of reception and the current the slave reports, bytes 3 and 4 of the
   status, in centiamperes. *)
receive_slave_heartbeat(s, heartbeatData) ==
    [s EXCEPT !.sinceLastRx = 0,
              !.reportedAmpsActual =
                  heartbeatData[4] * 256 + heartbeatData[5]]

(* A slave heartbeat handler that takes every sender for a known slave. *)
HeartbeatSenderKnownAlways(keys, id) == TRUE

(* slaveTWC = slaveTWCs[senderID] does not raise KeyError. *)
HeartbeatSenderKnown(keys, id) == id \in keys

(* \A\xfc(\xe1|\xe2)(..)(.)\x00\x00\x00\x00\x00\x00\x00\x00.+\Z *)
IsPeerMasterLinkReady(m) ==
    /\ Len(m) >= 14
    /\ m[1] = 252 /\ m[2] \in {225, 226}
    /\ \A i \in 6..13 : m[i] = 0

(* Dispatch of a verified frame in master mode. *)
Dispatch(m) ==
    IF IsSlaveLinkReady(m)
    THEN /\ spikeAmpsToCancel6ALimit' =
                (IF LinkReadyMaxAmps(m) >= 8000 THEN 21 ELSE 16)
         /\ IF LinkReadySender(m) = fakeTWCID
            THEN \* print(time_now + ...) raises TypeError before
                 \* numInitMsgsToSend = 10 is reached
                 /\ Unhandled
                 /\ UNCHANGED <<slaveTWCs, slaveTWCRoundRobin, lastTx, serOut,
                                stepTx>>
            ELSE HandleSlaveLinkReady(m)
    ELSE IF IsSlaveHeartbeat(m)
    THEN \* heartbeat of a slave: an unknown sender is an error printed; a
         \* heartbeat addressed to another id than the master's is a warning
         /\ twc' = (IF /\ HeartbeatSenderKnown(slaveTWCs, LinkReadySender(m))
                       /\ SubSeq(m, 5, 6) = fakeTWCID
                    THEN [twc EXCEPT ![LinkReadySender(m)] =
                             receive_slave_heartbeat(@, HeartbeatData(m))]
                    ELSE twc)
         /\ pc' = "top"
         /\ UNCHANGED <<spikeAmpsToCancel6ALimit, slaveTWCs,
                        slaveTWCRoundRobin, sinceLastTx, lastTx, serOut,
                        stepTx>>
    ELSE IF IsPeerMasterLinkReady(m)
    THEN \* a TWC set to master mode is on the bus: an error is printed
         /\ pc' = "top"
         /\ UNCHANGED <<spikeAmpsToCancel6ALimit, slaveTWCs,
                        slaveTWCRoundRobin, twc, sinceLastTx, lastTx, serOut,
                        stepTx>>
    ELSE \* voltage and kWh report, VIN data or an unknown message: printed
         /\ pc' = "top"
         /\ UNCHANGED <<spikeAmpsToCancel6ALimit, slaveTWCs,
                        slaveTWCRoundRobin, twc, sinceLastTx, lastTx, serOut,
                        stepTx>>

Frame ==
    /\ pc = "frame"
    /\ IF UnescapeRaises
       THEN \* msgLen = 0 is not reached: the raw frame stays buffered
            /\ Unhandled
            /\ UNCHANGED <<msg, msgLen, msgIsBytes, lastTWCResponseMsg,
                           spikeAmpsToCancel6ALimit, slaveTWCs,
                           slaveTWCRoundRobin, lastTx, serOut, stepTx>>
       ELSE LET m == unescape_msg(msg, msgLen) IN
            /\ msgLen' = 0
            /\ msg' = <<>>
            /\ msgIsBytes' = FALSE
            /\ lastTWCResponseMsg' =
                   (IF lastTWCResponseMsg = <<>>
                       /\ SubSeq(m, 1, 2) \notin PeriodicTypes
                    THEN m ELSE lastTWCResponseMsg)
            /\ IF LengthOk(m) /\ ChecksumOk(m) /\ fakeMaster = 1
               THEN Dispatch(m)
               ELSE /\ pc' = "top"
                    /\ UNCHANGED <<spikeAmpsToCancel6ALimit, slaveTWCs,
                                   slaveTWCRoundRobin, twc, sinceLastTx,
                                   lastTx, serOut, stepTx>>
    /\ UNCHANGED <<iter, numInitMsgsToSend, fakeTWCID,
                   idxSlaveToSendNextHeartbeat, serIn,
                   sentLinkReady1, sentLinkReady2, envVars, codecVars, bgVars, webVars, slaveVars>>

----------------------------------------------------------------------------
Next ==
    \/ SerialArrive
    \/ Sleep
    \/ PeriodicTx
    \/ WebMsg
    \/ Receive
    \/ Frame

Spec == Init /\ [][Next]_vars


----------------------------------------------------------------------------
(* Codec harness: one payload is written by send_msg and the bytes written
   are read by the receive loop of a TWCManager in its idle state. *)

(* Payloads of n bytes with at most k of them, at any positions, taken from
   the bytes the codec treats specially. *)
RECURSIVE PayloadsOfLen(_, _)
PayloadsOfLen(n, k) ==
    IF k = 0 THEN { Zeros(n) }
    ELSE LET fewer == PayloadsOfLen(n, k - 1) IN
         fewer \cup { [p EXCEPT ![i] = b] :
                        p \in fewer, i \in 1..n, b \in SpecialBytes }

Payloads(k) == UNION { PayloadsOfLen(n, k) : n \in PayloadLens }

InitCodec ==
    /\ pc = "send"
    /\ InitLoop
    /\ InitBackground
    /\ codecIn \in Payloads(MaxSpecial)
    /\ codecOut = <<>>

CodecSend ==
    /\ pc = "send"
    /\ send_msg(codecIn, "codec", msgLen)
    /\ sinceLastTx' = 0
    /\ pc' = "wire"
    /\ UNCHANGED <<iter, numInitMsgsToSend, fakeTWCID, spikeAmpsToCancel6ALimit,
                   lastTWCResponseMsg, regVars, rxVars, sentLinkReady1,
                   sentLinkReady2, envVars, codecVars, bgVars, webVars, slaveVars>>

(* The receive loop on the bytes written, then unescape_msg when the loop
   left with a full-length frame. *)
CodecDeliver ==
    /\ pc = "wire"
    /\ LET r == RxLoop([RxState EXCEPT !.serIn = serOut]) IN
       /\ serIn' = r.serIn
       /\ codecOut' = (IF r.msgLen >= 16 /\ ~(r.msgIsBytes /\ DB \in Range(r.msg))
                       THEN unescape_msg(r.msg, r.msgLen) ELSE <<>>)
    /\ msgLen' = 0
    /\ msg' = <<>>
    /\ msgIsBytes' = FALSE
    /\ pc' = "done"
    /\ UNCHANGED <<iter, numInitMsgsToSend, fakeTWCID, spikeAmpsToCancel6ALimit,
                   lastTWCResponseMsg, regVars, txVars, envVars, codecIn,
                   bgVars, webVars, slaveVars>>

NextCodec ==
    \/ CodecSend
    \/ CodecDeliver

SpecCodec == InitCodec /\ [][NextCodec]_vars

----------------------------------------------------------------------------
(* The main thread and background_tasks_thread around the task queue, the
   budget settings of the web interface and check_green_energy. *)

(* What the web interface asks about the budget: the command and its
   amperage, start hour and end hour where it has them. *)
BudgetRequests ==
    { [cmd |-> "chargeNow", amps |-> 0, startHour |-> 0, endHour |-> 0],
      [cmd |-> "chargeNowCancel", amps |-> 0, startHour |-> 0, endHour |-> 0],
      [cmd |-> "setNonScheduledAmps", amps |-> 10, startHour |-> 0,
       endHour |-> 0],
      [cmd |-> "setNonScheduledAmps", amps |-> -1, startHour |-> 0,
       endHour |-> 0],
      [cmd |-> "setScheduledAmps", amps |-> 16, startHour |-> 0,
       endHour |-> 12] }

InitBackgroundTasks ==
    /\ pc = "top"
    /\ InitLoop
    /\ InitBackground
    /\ codecIn = <<>>
    /\ codecOut = <<>>

(* The budget side under each configuration of subtractChargerLoad and
   greenEnergyAmpsOffset, with the slaves drawing totalAmpsInUse. *)
InitBudget ==
    /\ pc = "top"
    /\ InitLoop
    /\ codecIn = <<>>
    /\ codecOut = <<>>
    /\ \E subtract \in BOOLEAN, amps \in AmpsInUse, offset \in GreenOffsets :
         InitBackgroundWith(subtract, amps, offset)

(* time.time() advances. *)
TimePasses ==
    /\ now < MaxNow
    /\ now' = now + 1
    /\ UNCHANGED <<busVars, allocVars, exitVars, taskVars, greenVars, chargeNowAmps,
                   chargeNowTimeEnd, nonScheduledAmpsMax, scheduledAmpsMax,
                   scheduledAmpsStartHour, scheduledAmpsEndHour>>

(* Web interface phase: chargeNow, chargeNowCancel, setNonScheduledAmps,
   setScheduledAmps. *)
WebBudget ==
    /\ busPc = "idle"
    /\ \E req \in BudgetRequests :
         /\ chargeNowAmps' =
                (IF req.cmd = "chargeNow" THEN wiringMaxAmpsAllTWCs
                 ELSE IF req.cmd = "chargeNowCancel" THEN 0
                 ELSE chargeNowAmps)
         /\ chargeNowTimeEnd' =
                (IF req.cmd = "chargeNow" THEN now + ChargeNowDuration
                 ELSE IF req.cmd = "chargeNowCancel" THEN 0
                 ELSE chargeNowTimeEnd)
         /\ nonScheduledAmpsMax' =
                (IF req.cmd = "setNonScheduledAmps" THEN req.amps
                 ELSE nonScheduledAmpsMax)
         /\ scheduledAmpsMax' =
                (IF req.cmd = "setScheduledAmps" THEN req.amps
                 ELSE scheduledAmpsMax)
         /\ scheduledAmpsStartHour' =
                (IF req.cmd = "setScheduledAmps" THEN req.startHour
                 ELSE scheduledAmpsStartHour)
         /\ scheduledAmpsEndHour' =
                (IF req.cmd = "setScheduledAmps" THEN req.endHour
                 ELSE scheduledAmpsEndHour)
    /\ UNCHANGED <<busVars, allocVars, exitVars, taskVars, greenVars, now>>

(* The main thread calls queue_background_task(task), task one of tasks. *)
QueueCallOf(tasks) ==
    /\ busPc = "idle"
    /\ \E task \in tasks : busTask' = task
    /\ busPc' = "check"
    /\ UNCHANGED <<busVars, allocVars, exitVars, backgroundTasksQueue, backgroundTasksCmds, bgPc,
                   bgTask, backgroundTasksLock, greenVars, policyVars>>

QueueCall == QueueCallOf(Tasks)

(* An installation without car API credentials: the only task queued is the
   green-energy check. *)
QueueGreenCheck == QueueCallOf({ t \in Tasks : t.cmd = "checkGreenEnergy" })

(* A test that finds no cmd in backgroundTasksCmds. *)
TaggedNever(cmds, task) == FALSE

(* task['cmd'] in backgroundTasksCmds *)
Tagged(cmds, task) == task.cmd \in cmds

(* if task['cmd'] in backgroundTasksCmds: return;
   backgroundTasksCmds[task['cmd']] = True *)
QueueCheck ==
    /\ busPc = "check"
    /\ IF Tagged(backgroundTasksCmds, busTask)
       THEN /\ busPc' = "idle"
            /\ busTask' = NoTask
            /\ UNCHANGED backgroundTasksCmds
       ELSE /\ backgroundTasksCmds' = backgroundTasksCmds \cup {busTask.cmd}
            /\ busPc' = "put"
            /\ UNCHANGED busTask
    /\ UNCHANGED <<busVars, allocVars, exitVars, backgroundTasksQueue, bgPc, bgTask,
                   backgroundTasksLock, greenVars, policyVars>>

(* backgroundTasksQueue.put(task), which counts the task as unfinished *)
QueuePut ==
    /\ busPc = "put"
    /\ backgroundTasksQueue' = Append(backgroundTasksQueue, busTask)
    /\ unfinished_tasks' = unfinished_tasks + 1
    /\ busPc' = "idle"
    /\ busTask' = NoTask
    /\ UNCHANGED <<busVars, allocVars, serIsOpen, backgroundTasksCmds, bgPc,
                   bgTask, backgroundTasksLock, greenVars, policyVars>>

(* task = backgroundTasksQueue.get(), which blocks on an empty queue *)
BgGet ==
    /\ bgPc = "get"
    /\ backgroundTasksQueue # <<>>
    /\ bgTask' = Head(backgroundTasksQueue)
    /\ backgroundTasksQueue' = Tail(backgroundTasksQueue)
    /\ bgPc' = "run"
    /\ UNCHANGED <<busVars, allocVars, exitVars, backgroundTasksCmds, busPc, busTask,
                   backgroundTasksLock, greenVars, policyVars>>

(* check_green_energy up to the lock: the five readings go into master. *)
SetReadings(m, offset, smp) ==
    [m EXCEPT
       !.consumptionValues =
           DictSet(DictSet(DictSet(@, "Manual", (offset * 240) \div 100),
                           "Fronius", smp.fc),
                   "HomeAssistant", smp.hc),
       !.generationValues =
           DictSet(DictSet(@, "Fronius", smp.fg), "HomeAssistant", smp.hg)]

(* How a handler of background_tasks_thread ends.  car_api_charge and
   car_api_available catch json.decoder.JSONDecodeError, KeyError and
   TypeError only, around single statements: the reply of the car API that is
   not ASCII (apiResponse.decode('ascii')), or is JSON other than an object
   where only KeyError is caught, raises out of the handler. *)
HandlerOutcomes(task) ==
    IF task.cmd \in {"charge", "carApiEmailPassword"}
    THEN {"returns", "raises"}
    ELSE {"returns"}

(* A thread whose handlers are wrapped in try/except: an exception is passed
   over and the thread goes on to its del. *)
AfterHandlerCaught(outcome) == "del"

(* Where background_tasks_thread is after a handler that is not
   check_green_energy: at its del, or ended by the exception, which nothing
   in the thread catches. *)
AfterHandler(outcome) == IF outcome = "raises" THEN "dead" ELSE "del"

(* The branch of background_tasks_thread for the task's cmd: car_api_charge
   and car_api_available leave the state of this model alone;
   check_green_energy first takes its readings. *)
BgRun ==
    /\ bgPc = "run"
    /\ IF bgTask.cmd = "checkGreenEnergy"
       THEN /\ \E smp \in Samples :
                 master' = SetReadings(master, greenEnergyAmpsOffset, smp)
            /\ bgPc' = "acquire"
       ELSE /\ \E outcome \in HandlerOutcomes(bgTask) :
                 bgPc' = AfterHandler(outcome)
            /\ UNCHANGED master
    /\ UNCHANGED <<busVars, allocVars, exitVars, backgroundTasksQueue, backgroundTasksCmds, busPc,
                   busTask, bgTask, backgroundTasksLock, greenEnergyAmpsOffset,
                   maxAmpsToDivideAmongSlaves, policyVars>>

(* An acquire that returns without taking the lock. *)
acquire_nothing(lock, thread) == lock

(* backgroundTasksLock.acquire() returning in thread: the lock's holder. *)
acquire(lock, thread) == thread

(* backgroundTasksLock.acquire();
   maxAmpsToDivideAmongSlaves = master.getMaxAmpsToDivideAmongSlaves() *)
BgLockWrite ==
    /\ bgPc = "acquire"
    /\ backgroundTasksLock = "free"
    /\ backgroundTasksLock' = acquire(backgroundTasksLock, "bg")
    /\ maxAmpsToDivideAmongSlaves' = getMaxAmpsToDivideAmongSlaves(master)
    /\ bgPc' = "release"
    /\ UNCHANGED <<busVars, allocVars, exitVars, backgroundTasksQueue, backgroundTasksCmds, busPc,
                   busTask, bgTask, master, greenEnergyAmpsOffset, policyVars>>

(* backgroundTasksLock.release() and the status updates that end
   check_green_energy *)
BgRelease ==
    /\ bgPc = "release"
    /\ backgroundTasksLock' = "free"
    /\ bgPc' = "del"
    /\ UNCHANGED <<busVars, allocVars, exitVars, backgroundTasksQueue, backgroundTasksCmds, busPc,
                   busTask, bgTask, greenVars, policyVars>>

(* del backgroundTasksCmds[task['cmd']]; backgroundTasksQueue.task_done() *)
BgDel ==
    /\ bgPc = "del"
    /\ backgroundTasksCmds' = backgroundTasksCmds \ {bgTask.cmd}
    /\ unfinished_tasks' = unfinished_tasks - 1
    /\ bgTask' = NoTask
    /\ bgPc' = "get"
    /\ UNCHANGED <<busVars, allocVars, serIsOpen, backgroundTasksQueue, busPc,
                   busTask, backgroundTasksLock, greenVars, policyVars>>

NextBackground ==
    \/ QueueCall
    \/ QueueCheck
    \/ QueuePut
    \/ BgGet
    \/ BgRun
    \/ BgLockWrite
    \/ BgRelease
    \/ BgDel

SpecBackground == InitBackgroundTasks /\ [][NextBackground]_vars

NextBudget ==
    \/ TimePasses
    \/ WebBudget
    \/ QueueGreenCheck
    \/ QueueCheck
    \/ QueuePut
    \/ BgGet
    \/ BgRun
    \/ BgLockWrite
    \/ BgRelease
    \/ BgDel

SpecBudget == InitBudget /\ [][NextBudget]_vars

----------------------------------------------------------------------------
(* Shutdown: KeyboardInterrupt in the main loop, the join of the queue,
   ser.close(). *)

(* KeyboardInterrupt is raised in the main thread wherever the loop is, also
   inside queue_background_task; except KeyboardInterrupt: break. *)
KeyboardInterrupt ==
    /\ busPc \in {"idle", "check", "put"}
    /\ busPc' = "join"
    /\ busTask' = NoTask
    /\ UNCHANGED <<busVars, allocVars, exitVars, backgroundTasksQueue,
                   backgroundTasksCmds, bgPc, bgTask, backgroundTasksLock,
                   greenVars, policyVars>>

(* A join that returns as soon as the queue is empty. *)
JoinMayReturnOnEmpty(unfinished, queue) == queue = <<>>

(* queue.Queue.join() returns when unfinished_tasks is 0. *)
JoinMayReturn(unfinished, queue) == unfinished = 0

(* backgroundTasksQueue.join() *)
Join ==
    /\ busPc = "join"
    /\ JoinMayReturn(unfinished_tasks, backgroundTasksQueue)
    /\ busPc' = "close"
    /\ UNCHANGED <<busVars, allocVars, exitVars, backgroundTasksQueue,
                   backgroundTasksCmds, busTask, bgPc, bgTask,
                   backgroundTasksLock, greenVars, policyVars>>

(* ser.close(), the last statement of the program *)
SerClose ==
    /\ busPc = "close"
    /\ serIsOpen' = FALSE
    /\ busPc' = "exit"
    /\ UNCHANGED <<busVars, allocVars, unfinished_tasks, backgroundTasksQueue,
                   backgroundTasksCmds, busTask, bgPc, bgTask,
                   backgroundTasksLock, greenVars, policyVars>>

(* The steps of background_tasks_thread. *)
Worker ==
    \/ BgGet
    \/ BgRun
    \/ BgLockWrite
    \/ BgRelease
    \/ BgDel

NextShutdown ==
    \/ QueueCall
    \/ QueueCheck
    \/ QueuePut
    \/ Worker
    \/ KeyboardInterrupt
    \/ Join
    \/ SerClose

(* Both threads are scheduled by the operating system: a thread that can
   take a step is not held back for ever.  Nothing obliges the user to send
   the signal or the main loop to queue a task. *)
SpecShutdown ==
    /\ InitBackgroundTasks
    /\ [][NextShutdown]_vars
    /\ WF_vars(Worker)
    /\ WF_vars(Join)
    /\ WF_vars(SerClose)

(* Local hour of the day, the clock counting half days from midnight. *)
HourOfDay == (now % 2) * 12

(* Within the scheduled window: the local hour is in [startHour, endHour);
   scheduledAmpsDaysBitmap is 0x7F, every day. *)
InScheduledWindow ==
    /\ scheduledAmpsStartHour <= HourOfDay
    /\ HourOfDay < scheduledAmpsEndHour

(* The budget by precedence, in centiamperes: chargeNowAmps while
   now < chargeNowTimeEnd, else scheduledAmpsMax within the scheduled window,
   else nonScheduledAmpsMax when it is not negative, else the green-energy
   value. *)
PolicyBudget(green) ==
    IF now < chargeNowTimeEnd THEN chargeNowAmps
    ELSE IF InScheduledWindow THEN scheduledAmpsMax * 100
    ELSE IF nonScheduledAmpsMax >= 0 THEN nonScheduledAmpsMax * 100
    ELSE green

----------------------------------------------------------------------------
(* The allocator, which runs on the main thread when a slave heartbeat is
   handled, and the amperage field of the master heartbeat. *)

(* Values of config['config']['minAmpsPerTWC'], in centiamperes. *)
MinAmpsChoices == {600, 1200, 2500}

(* Budgets left in maxAmpsToDivideAmongSlaves, in centiamperes. *)
Budgets == {0, 500, 1200, 3000, 6400}

(* Ratings the slaves advertise, in centiamperes. *)
Ratings == {3200, 8000}

Max(a, b) == IF a > b THEN a ELSE b

(* The registry after the first n of three slaves have sent their
   link-ready, with the ratings given. *)
RECURSIVE Linked(_, _)
Linked(n, rating) ==
    IF n = 0
    THEN [keys |-> {}, rr |-> <<>>, obj |-> [id \in AllIDs |-> NoSlave]]
    ELSE LET ids == << <<171, 205>>, <<17, 17>>, <<34, 34>> >>
             lens == <<14, 16, 16>>
         IN  AfterLinkReady(Linked(n - 1, rating), ids[n], rating[n], lens[n])

InitAlloc ==
    /\ pc = "top"
    /\ iter = 0
    /\ numInitMsgsToSend = 0
    /\ sinceLastTx = 0
    /\ fakeTWCID = OwnID
    /\ lastTWCResponseMsg = None
    /\ serIn = <<>>
    /\ framesSent = 0
    /\ InitCar
    /\ msg = <<>>
    /\ msgLen = 0
    /\ msgIsBytes = FALSE
    /\ lastTx = NoTx
    /\ stepTx = <<>>
    /\ sentLinkReady1 = 5
    /\ sentLinkReady2 = 5
    /\ serOut = <<>>
    /\ webMsg = NoRequest
    /\ webResponseMsg = <<>>
    /\ slaveSign = <<119>>
    /\ configFakeMaster = fakeMaster
    /\ codecIn = <<>>
    /\ codecOut = <<>>
    /\ idxSlaveToSendNextHeartbeat = 0
    /\ \E n \in 1..3, rating \in [1..3 -> Ratings] :
         LET r == Linked(n, rating) IN
         /\ slaveTWCs = r.keys
         /\ slaveTWCRoundRobin = r.rr
         /\ twc = r.obj
         /\ spikeAmpsToCancel6ALimit = (IF rating[n] >= 8000 THEN 21 ELSE 16)
    /\ backgroundTasksQueue = <<>>
    /\ backgroundTasksCmds = {}
    /\ busPc = "idle"
    /\ busTask = NoTask
    /\ bgPc = "get"
    /\ bgTask = NoTask
    /\ backgroundTasksLock = "free"
    /\ master = TWCMaster(FALSE, 0)
    /\ greenEnergyAmpsOffset = 0
    /\ maxAmpsToDivideAmongSlaves \in Budgets
    /\ chargeNowAmps = 0
    /\ chargeNowTimeEnd = 0
    /\ nonScheduledAmpsMax = -1
    /\ scheduledAmpsMax = -1
    /\ scheduledAmpsStartHour = -1
    /\ scheduledAmpsEndHour = -1
    /\ now = 1
    /\ minAmpsPerTWC \in MinAmpsChoices
    /\ spikeDue = {}
    /\ hbAmps = 0
    /\ unfinished_tasks = 0
    /\ serIsOpen = TRUE

(* What the allocator's actions leave alone on the main thread's side. *)
loopVars == <<pc, iter, numInitMsgsToSend, fakeTWCID, spikeAmpsToCancel6ALimit,
              lastTWCResponseMsg, slaveTWCs, slaveTWCRoundRobin,
              idxSlaveToSendNextHeartbeat, rxVars, txVars, envVars, codecVars,
              webVars, slaveVars>>

(* Slaves drawing current: non-zero reportedAmpsActual. *)
Charging(obj, keys) == { id \in keys : obj[id].reportedAmpsActual > 0 }

(* A clamp whose lower bound is applied last. *)
ClampFloorLast(x, lo, hi) == Max(Min(x, hi), lo)

(* x clamped to [lo, hi]; the upper bound is applied last, which keeps the
   session invariant lastAmpsOffered <= wiringMaxAmps when lo > hi. *)
Clamp(x, lo, hi) == Min(Max(x, lo), hi)

(* A share that is the whole budget. *)
ShareUndivided(budgetA, n, lo, hi) == Clamp(budgetA, lo, hi)

(* One slave's share: budgetA divided equally among n slaves, clamped to
   [minAmpsPerTWC, wiringMaxAmps], rounded down in fixed point. *)
Share(budgetA, n, lo, hi) == Clamp(budgetA \div n, lo, hi)

(* A stop rule with the comparison of the budget inverted. *)
StopAllAbove(budgetA, lo, charging) == budgetA > lo /\ charging # {}

(* budgetA < minAmpsPerTWC and active-charging count > 0: offer 0 A to all *)
StopAll(budgetA, lo, charging) == budgetA < lo /\ charging # {}

(* The budget the allocator divides: the policy selection, clamped to
   wiringMaxAmpsAllTWCs. *)
BudgetA ==
    Min(PolicyBudget(maxAmpsToDivideAmongSlaves), wiringMaxAmpsAllTWCs)

(* The allocator starts: it takes the shared lock. *)
AllocLock ==
    /\ backgroundTasksLock = "free"
    /\ slaveTWCs # {}
    /\ backgroundTasksLock' = "bus"
    /\ UNCHANGED <<busVars, allocVars, exitVars, backgroundTasksQueue,
                   backgroundTasksCmds, busPc, busTask, bgPc, bgTask,
                   greenVars, policyVars>>

(* Under the lock the allocator writes every session's lastAmpsOffered and
   refreshes maxAmpsToDivideAmongSlaves; a session that goes from 0 A to an
   offer owes the spike. *)
Allocate ==
    /\ backgroundTasksLock = "bus"
    /\ LET n == Cardinality(slaveTWCs)
           stop == StopAll(BudgetA, minAmpsPerTWC, Charging(twc, slaveTWCs))
           offer == [id \in AllIDs |->
                       IF id \notin slaveTWCs \/ stop THEN 0
                       ELSE Share(BudgetA, n, minAmpsPerTWC,
                                  twc[id].wiringMaxAmps)]
       IN
       /\ twc' = [id \in AllIDs |->
                    IF id \in slaveTWCs
                    THEN [twc[id] EXCEPT !.lastAmpsOffered = offer[id]]
                    ELSE twc[id]]
       /\ spikeDue' =
              { id \in slaveTWCs :
                  /\ offer[id] > 0
                  /\ twc[id].lastAmpsOffered = 0 \/ id \in spikeDue }
       /\ maxAmpsToDivideAmongSlaves' = BudgetA
    /\ backgroundTasksLock' = "free"
    /\ UNCHANGED <<loopVars, backgroundTasksQueue, backgroundTasksCmds, busPc,
                   busTask, bgPc, bgTask, master, greenEnergyAmpsOffset,
                   policyVars, minAmpsPerTWC, hbAmps, exitVars>>

(* A slave heartbeat reports the current the car draws: none, or what the
   slave was last offered. *)
SlaveReports ==
    /\ backgroundTasksLock = "free"
    /\ \E id \in slaveTWCs :
         \E amps \in {0, twc[id].lastAmpsOffered} :
             twc' = [twc EXCEPT ![id].reportedAmpsActual = amps]
    /\ UNCHANGED <<loopVars, allocVars, taskVars, greenVars, policyVars,
                   exitVars>>

(* The amperage field of a master heartbeat: the session's lastAmpsOffered,
   or spikeAmpsToCancel6ALimit for the one cycle after a 0 A offer. *)
BuildHeartbeat ==
    /\ backgroundTasksLock = "free"
    /\ \E id \in slaveTWCs :
         /\ hbAmps' = (IF id \in spikeDue THEN spikeAmpsToCancel6ALimit * 100
                       ELSE twc[id].lastAmpsOffered)
         /\ spikeDue' = spikeDue \ {id}
    /\ UNCHANGED <<busVars, minAmpsPerTWC, taskVars, greenVars, policyVars,
                   exitVars>>

NextAlloc ==
    \/ AllocLock
    \/ Allocate
    \/ SlaveReports
    \/ BuildHeartbeat

SpecAlloc == InitAlloc /\ [][NextAlloc]_vars

----------------------------------------------------------------------------
(* The web phase of the running master on its own: the registry holds up to
   three slaves, the startup burst is over. *)

(* Requests of the web interface: none, getLastTWCMsgResponse, and sendTWCMsg
   with frames of the three refused types (short, of full length, too long),
   with frames of other types, with a single byte, with an odd number of
   digits and with no digit at all. *)
SendRequests ==
    { NoRequest,
      [cmd |-> "getLastTWCMsgResponse", hex |-> <<>>],
      sendTWCMsg(HexDigits(<<252, 25>>)),
      sendTWCMsg(HexDigits(<<252, 26, 119, 119>> \o Zeros(13))),
      sendTWCMsg(HexDigits(<<251, 232, 119, 119, 171, 205>>)),
      sendTWCMsg(HexDigits(<<251, 235, 119, 119, 171, 205>>)),
      sendTWCMsg(HexDigits(<<252, 225, 119, 119>> \o Zeros(13))),
      sendTWCMsg(HexDigits(<<252>>)),
      sendTWCMsg(<<15, 11, 14, 8, 7>>),
      sendTWCMsg(<<>>) }

(* A message as the receive loop delivers it: payload and checksum. *)
Received(m) == Append(m, TxChecksum(m))

(* An unusual frame of a slave: FD EE, its id, 7 characters of the VIN. *)
VinReply(id) == <<253, 238>> \o id \o <<53, 89, 74, 70, 51, 69, 49>> \o <<0, 0>>

(* The running master, up to three slaves registered. *)
InitRunning(n, rating) ==
    /\ numInitMsgsToSend = 0
    /\ fakeTWCID = OwnID
    /\ serIn = <<>>
    /\ framesSent = 0
    /\ InitCar
    /\ msg = <<>>
    /\ msgLen = 0
    /\ msgIsBytes = FALSE
    /\ lastTx = NoTx
    /\ stepTx = <<>>
    /\ sentLinkReady1 = 5
    /\ sentLinkReady2 = 5
    /\ serOut = <<>>
    /\ webMsg = NoRequest
    /\ webResponseMsg = <<>>
    /\ slaveSign = <<119>>
    /\ configFakeMaster = fakeMaster
    /\ codecIn = <<>>
    /\ codecOut = <<>>
    /\ idxSlaveToSendNextHeartbeat = 0
    /\ LET r == Linked(n, rating) IN
       /\ slaveTWCs = r.keys
       /\ slaveTWCRoundRobin = r.rr
       /\ twc = r.obj
       /\ spikeAmpsToCancel6ALimit =
              (IF n > 0 /\ rating[n] >= 8000 THEN 21 ELSE 16)
    /\ InitBackground

InitWeb ==
    /\ pc = "web"
    /\ iter = 0
    /\ \E n \in 0..3, rating \in [1..3 -> Ratings] : InitRunning(n, rating)
    /\ sinceLastTx \in {Sleep100, HeartbeatPeriod}
    /\ lastTWCResponseMsg \in {None, <<>>, Received(VinReply(<<171, 205>>))}

WebSend == WebMsgOf(SendRequests)

NextWeb ==
    \/ WebSend
    \/ Receive

SpecWeb == InitWeb /\ [][NextWeb]_vars

----------------------------------------------------------------------------
(* The running master for a few iterations of its loop, with unusual frames
   on the bus and the web interface sending a command and asking for the
   response. *)

(* Iterations of the loop explored. *)
RunIters == 4

(* Link-ready of a TWC whose rotary switch makes it a master: FC E1 or
   FC E2, id, sign, zeros. *)
PeerMasterLinkReady(type2, id, sign) ==
    <<252, type2>> \o id \o <<sign>> \o Zeros(8)

(* Bursts on the bus: first a VIN frame that is sound, or has a corrupted
   checksum, or is one byte too long, or a peer master's FC E1; then another
   VIN frame, sound or corrupted, or a peer master's FC E2. *)
FrameTraffic ==
    << { WireBytes(VinReply(<<171, 205>>)),
         BadChecksum(VinReply(<<171, 205>>)),
         WireBytes(VinReply(<<171, 205>>) \o <<0>>),
         WireBytes(PeerMasterLinkReady(225, <<85, 85>>, 7)) },
       { WireBytes(VinReply(<<17, 17>>)),
         BadChecksum(VinReply(<<17, 17>>)),
         WireBytes(PeerMasterLinkReady(226, <<85, 85>>, 7)) } >>

FrameRequests ==
    { NoRequest,
      [cmd |-> "getLastTWCMsgResponse", hex |-> <<>>],
      sendTWCMsg(HexDigits(<<251, 238, 119, 119, 171, 205>>)) }

InitFrames ==
    /\ pc = "top"
    /\ iter = MaxIter - RunIters
    /\ \E n \in {0, 2} : InitRunning(n, [i \in 1..3 |-> 3200])
    /\ sinceLastTx = 0
    /\ lastTWCResponseMsg = None

FrameArrive == SerialArriveFrom(FrameTraffic)

WebAsk == WebMsgOf(FrameRequests)

NextFrames ==
    \/ FrameArrive
    \/ Sleep
    \/ PeriodicTx
    \/ WebAsk
    \/ Receive
    \/ Frame

SpecFrames == InitFrames /\ [][NextFrames]_vars

----------------------------------------------------------------------------
(* The running master over a few heartbeat periods: one to three slaves are
   registered, a link-ready arrives from one of them or from a fourth, the
   web interface sends a command. *)

(* Iterations of the loop explored. *)
BeatIters == 5

(* The sleep at the top of the loop returns on time, or when the next
   heartbeat is due 1 s after the last one, or after 26 s. *)
BeatOversleeps ==
    {0, HeartbeatPeriod - Sleep100 - Sleep25, SlaveTimeout - Sleep25}

BeatTraffic ==
    << { WireBytes(SlaveLinkReady(<<85, 85>>, 21, 3200, 2)),
         WireBytes(SlaveLinkReady(<<171, 205>>, 119, 3200, 1)) } >>

BeatRequests ==
    { NoRequest, sendTWCMsg(HexDigits(<<251, 238, 119, 119, 171, 205>>)) }

InitBeat ==
    /\ pc = "top"
    /\ iter = MaxIter - BeatIters
    /\ \E n \in 1..3 : InitRunning(n, [i \in 1..3 |-> 3200])
    /\ sinceLastTx = HeartbeatPeriod
    /\ lastTWCResponseMsg = None

BeatArrive == SerialArriveFrom(BeatTraffic)

BeatSleep == SleepFor(BeatOversleeps)

BeatWeb == WebMsgOf(BeatRequests)

NextBeat ==
    \/ BeatArrive
    \/ BeatSleep
    \/ PeriodicTx
    \/ BeatWeb
    \/ Receive
    \/ Frame

SpecBeat == InitBeat /\ [][NextBeat]_vars

----------------------------------------------------------------------------
(* Slave-impersonation mode: config fakeMaster is 0, or 2 for a fake slave
   that does not advertise itself. *)

(* Values random.randint(0, 0xFF) gives master_id_conflict: two ids and two
   signs stand for the 65536 ids and 256 signs; the sign may come out as it
   was, and so may the id at a second conflict. *)
RandomIDs == {<<17, 17>>, <<34, 34>>}
RandomSigns == {<<119>>, <<35>>}

(* master_id_conflict() with the random values drawn from ids and signs. *)
master_id_conflict(ids, signs) ==
    /\ fakeTWCID' \in ids
    /\ slaveSign' \in signs

(* Frames of other TWCs, as a slave sees them. *)
MasterLinkReadyFrom(type, id, sign) == type \o id \o sign \o Zeros(8)
HeartbeatFrom(type, sender, receiver) == type \o sender \o receiver \o Zeros(7)
VoltageRequest(sender, receiver) ==
    <<251, 235>> \o sender \o receiver \o Zeros(9)
VoltageReport(sender) ==
    <<253, 235>> \o sender \o <<0, 0, 0, 20, 0, 246, 0, 0, 0, 0, 0>>

(* \A\xfc\xe1(..)(.)\x00\x00\x00\x00\x00\x00\x00\x00+?.\Z for type FC E1,
   and the same after FB E2. *)
IsMasterLinkReady(m, type) ==
    /\ Len(m) >= 14
    /\ SubSeq(m, 1, 2) = type
    /\ \A i \in 6..(Len(m) - 1) : m[i] = 0

(* \A\xfb\xe0(..)(..)(.......+?).\Z, and the same after FD E0 *)
IsHeartbeat(m, type) == Len(m) >= 14 /\ SubSeq(m, 1, 2) = type

(* \A\xfc\x1d\x00\x00\x00\x00\x00\x00\x00\x00\x00\x00\x00+?.\Z *)
IsIdleMessage(m) ==
    /\ Len(m) >= 14
    /\ m[1] = 252 /\ m[2] = 29
    /\ \A i \in 3..(Len(m) - 1) : m[i] = 0

(* \A\xfb\xeb(..)(..)(\x00\x00\x00\x00\x00\x00\x00\x00\x00+?).\Z *)
IsVoltageRequest(m) ==
    /\ Len(m) >= 16
    /\ m[1] = 251 /\ m[2] = 235
    /\ \A i \in 7..(Len(m) - 1) : m[i] = 0

(* \A\xfd\xeb(..)(.........+?).\Z *)
IsVoltageReport(m) == Len(m) >= 15 /\ m[1] = 253 /\ m[2] = 235

(* senderID and receiverID of a frame. *)
SenderID(m) == SubSeq(m, 3, 4)
ReceiverID(m) == SubSeq(m, 5, 6)

(* The heartbeat a fake slave answers the master with. *)
SlaveHeartbeat(masterTWCID) ==
    <<253, 224>> \o fakeTWCID \o masterTWCID \o Zeros(7)

(* The voltage report of the fake slave: FD EB, id, kWhPacked of no energy
   delivered, 240 V on phase A. *)
OwnVoltageReport ==
    <<253, 235>> \o fakeTWCID \o Zeros(4) \o <<0, 240, 0, 0, 0, 0, 0>>

(* slaveTWCs[id], or new_slave(id, amps) on KeyError; new_slave otherwise. *)
Tracked(id, amps) ==
    LET r == new_slave(Registry, id, amps) IN
    /\ slaveTWCs' = r.keys
    /\ slaveTWCRoundRobin' = r.rr
    /\ twc' = r.obj

(* time.time() - timeLastTx >= 10.0 while timeLastTx is still 0. *)
AdvertiseDue == lastTx = NoTx

(* Periodic phase of the loop in slave mode: send_slave_linkready() builds
   its message and then reads self.protocolVersion, which raises NameError
   in a function that has no self. *)
SlavePeriodicTx ==
    /\ pc = "tx"
    /\ configFakeMaster # 1
    /\ IF configFakeMaster # 2 /\ AdvertiseDue
       THEN Unhandled
       ELSE /\ pc' = "web"
            /\ UNCHANGED <<sinceLastTx, twc>>
    /\ UNCHANGED <<iter, numInitMsgsToSend, fakeTWCID, spikeAmpsToCancel6ALimit,
                   lastTWCResponseMsg, slaveTWCs, slaveTWCRoundRobin,
                   idxSlaveToSendNextHeartbeat, rxVars, lastTx, serOut, stepTx,
                   sentLinkReady1, sentLinkReady2, envVars, codecVars, bgVars,
                   webVars, slaveVars>>

(* Dispatch of a verified frame in slave mode. *)
SlaveDispatch(m) ==
    IF IsMasterLinkReady(m, <<252, 225>>) \/ IsMasterLinkReady(m, <<251, 226>>)
    THEN \* linkready1 or linkready2 of a master
         /\ IF SenderID(m) = fakeTWCID
            THEN master_id_conflict(RandomIDs, RandomSigns)
            ELSE UNCHANGED <<fakeTWCID, slaveSign>>
         /\ pc' = "top"
         /\ UNCHANGED <<slaveTWCs, slaveTWCRoundRobin, twc, sinceLastTx,
                        lastTx, serOut, stepTx>>
    ELSE IF IsHeartbeat(m, <<251, 224>>)
    THEN \* heartbeat of a master: the sender is not compared with the own id
         /\ Tracked(ReceiverID(m), 8000)
         /\ IF ReceiverID(m) # fakeTWCID
            THEN UNCHANGED <<sinceLastTx, lastTx, serOut, stepTx>>
            ELSE /\ send_msg(SlaveHeartbeat(SenderID(m)), "reply", 0)
                 /\ sinceLastTx' = 0
         /\ pc' = "top"
         /\ UNCHANGED <<fakeTWCID, slaveSign>>
    ELSE IF IsSlaveLinkReady(m) /\ SenderID(m) # fakeTWCID
    THEN /\ Tracked(SenderID(m), LinkReadyMaxAmps(m))
         /\ pc' = "top"
         /\ UNCHANGED <<fakeTWCID, slaveSign, sinceLastTx, lastTx, serOut,
                        stepTx>>
    ELSE IF IsHeartbeat(m, <<253, 224>>) /\ SenderID(m) # fakeTWCID
    THEN /\ Tracked(SenderID(m), 8000)
         /\ pc' = "top"
         /\ UNCHANGED <<fakeTWCID, slaveSign, sinceLastTx, lastTx, serOut,
                        stepTx>>
    ELSE IF /\ IsVoltageRequest(m)
            /\ SenderID(m) # fakeTWCID
            /\ ReceiverID(m) = fakeTWCID
    THEN /\ send_msg(OwnVoltageReport, "reply", 0)
         /\ sinceLastTx' = 0
         /\ pc' = "top"
         /\ UNCHANGED <<fakeTWCID, slaveSign, slaveTWCs, slaveTWCRoundRobin,
                        twc>>
    ELSE \* the idle message, a voltage report, an unknown message, or a
         \* slave's frame that has the own id as its sender: printed
         /\ pc' = "top"
         /\ UNCHANGED <<fakeTWCID, slaveSign, slaveTWCs, slaveTWCRoundRobin,
                        twc, sinceLastTx, lastTx, serOut, stepTx>>

(* A frame has been received in slave mode. *)
SlaveFrame ==
    /\ pc = "frame"
    /\ configFakeMaster # 1
    /\ IF UnescapeRaises
       THEN /\ Unhandled
            /\ UNCHANGED <<msg, msgLen, msgIsBytes, lastTWCResponseMsg,
                           fakeTWCID, slaveSign, slaveTWCs,
                           slaveTWCRoundRobin, lastTx, serOut, stepTx>>
       ELSE LET m == unescape_msg(msg, msgLen) IN
            /\ msgLen' = 0
            /\ msg' = <<>>
            /\ msgIsBytes' = FALSE
            /\ lastTWCResponseMsg' =
                   (IF lastTWCResponseMsg = <<>>
                       /\ SubSeq(m, 1, 2) \notin PeriodicTypes
                    THEN m ELSE lastTWCResponseMsg)
            /\ IF LengthOk(m) /\ ChecksumOk(m)
               THEN SlaveDispatch(m)
               ELSE /\ pc' = "top"
                    /\ UNCHANGED <<fakeTWCID, slaveSign, slaveTWCs,
                                   slaveTWCRoundRobin, twc, sinceLastTx,
                                   lastTx, serOut, stepTx>>
    /\ UNCHANGED <<iter, numInitMsgsToSend, spikeAmpsToCancel6ALimit,
                   idxSlaveToSendNextHeartbeat, serIn, sentLinkReady1,
                   sentLinkReady2, envVars, codecVars, bgVars, webVars,
                   configFakeMaster>>

(* Bursts on the bus: a frame of each of the seven types with the id the
   fake slave starts with as its sender, or a link-ready of another master;
   then frames whose sender is an id the fake slave may have picked. *)
SlaveTraffic ==
    << { WireBytes(MasterLinkReadyFrom(<<252, 225>>, OwnID, <<119>>)),
         WireBytes(MasterLinkReadyFrom(<<251, 226>>, OwnID, <<119>>)),
         WireBytes(HeartbeatFrom(<<251, 224>>, OwnID, <<171, 205>>)),
         WireBytes(SlaveLinkReady(OwnID, 119, 8000, 1)),
         WireBytes(HeartbeatFrom(<<253, 224>>, OwnID, <<171, 205>>)),
         WireBytes(VoltageRequest(OwnID, <<171, 205>>)),
         WireBytes(VoltageReport(OwnID)),
         WireBytes(MasterLinkReadyFrom(<<252, 225>>, <<85, 85>>, <<7>>)) },
       { WireBytes(MasterLinkReadyFrom(<<251, 226>>, <<17, 17>>, <<119>>)),
         WireBytes(SlaveLinkReady(<<17, 17>>, 119, 8000, 2)),
         WireBytes(HeartbeatFrom(<<253, 224>>, <<85, 85>>, <<171, 205>>)) } >>

SlaveRequests ==
    { NoRequest, [cmd |-> "getLastTWCMsgResponse", hex |-> <<>>] }

InitSlave ==
    /\ pc = "top"
    /\ \E mode \in {0, 2} : InitLoopIn(mode)
    /\ InitBackground
    /\ codecIn = <<>>
    /\ codecOut = <<>>

SlaveArrive == SerialArriveFrom(SlaveTraffic)

SlaveWeb == WebMsgOf(SlaveRequests)

NextSlave ==
    \/ SlaveArrive
    \/ Sleep
    \/ SlavePeriodicTx
    \/ SlaveWeb
    \/ Receive
    \/ SlaveFrame

SpecSlave == InitSlave /\ [][NextSlave]_vars

----------------------------------------------------------------------------
(* The running master with one or two slaves registered, which send frames
   of every kind a slave sends, while heartbeat ticks and long sleeps go
   by. *)

(* FD E0, sender, receiver, status: state, maximum and actual amperage. *)
SlaveHeartbeatFrom(sender, receiver, amps) ==
    <<253, 224>> \o sender \o receiver
        \o <<1, 0, 0, amps \div 256, amps % 256, 0, 0>>

(* What the slaves may send in a burst: from the registered slave ABCD a
   heartbeat to the master, a heartbeat to receiver 0000, a voltage report,
   a VIN report, a link-ready; a heartbeat from a slave never met; a
   link-ready that carries the master's id. *)
SessionFrames ==
    { WireBytes(SlaveHeartbeatFrom(<<171, 205>>, OwnID, 1200)),
      WireBytes(SlaveHeartbeatFrom(<<171, 205>>, <<0, 0>>, 1200)),
      WireBytes(VoltageReport(<<171, 205>>)),
      WireBytes(VinReply(<<171, 205>>)),
      WireBytes(SlaveLinkReady(<<171, 205>>, 119, 3200, 1)),
      WireBytes(SlaveHeartbeatFrom(<<85, 85>>, OwnID, 1200)),
      WireBytes(SlaveLinkReady(OwnID, 119, 3200, 1)) }

SessionTraffic == << SessionFrames, SessionFrames >>

InitSession ==
    /\ pc = "top"
    /\ iter = MaxIter - BeatIters
    /\ \E n \in 1..2 : InitRunning(n, [i \in 1..3 |-> 3200])
    /\ sinceLastTx = HeartbeatPeriod
    /\ lastTWCResponseMsg = None

SessionArrive == SerialArriveFrom(SessionTraffic)

SessionWeb == WebMsgOf({NoRequest})

NextSession ==
    \/ SessionArrive
    \/ BeatSleep
    \/ PeriodicTx
    \/ SessionWeb
    \/ Receive
    \/ Frame

SpecSession == InitSession /\ [][NextSession]_vars

----------------------------------------------------------------------------
(* The receive loop after corruption: the registry is empty, and one burst
   brings a corrupted run of bytes followed at once by the sound link-ready
   of slave ABCD. *)

ResyncFrame == WireBytes(SlaveLinkReady(<<171, 205>>, 119, 3200, 1))

(* Nothing; noise bytes between frames; a frame cut short after 4, 14 or 15
   bytes; a frame of 20 bytes that lacks its closing C0. *)
CorruptPrefixes ==
    { <<>>,
      <<1, 2, 3>>,
      Truncated(VinReply(<<17, 17>>), 4),
      Truncated(VinReply(<<17, 17>>), 14),
      Truncated(VinReply(<<17, 17>>), 15),
      <<C0>> \o VinReply(<<17, 17>>) \o <<1, 2, 3, 4>> }

ResyncTraffic == << { prefix \o ResyncFrame : prefix \in CorruptPrefixes } >>

InitResync ==
    /\ pc = "top"
    /\ iter = MaxIter - BeatIters
    /\ InitRunning(0, [i \in 1..3 |-> 3200])
    /\ sinceLastTx \in {0, HeartbeatPeriod}
    /\ lastTWCResponseMsg = None

ResyncArrive == SerialArriveFrom(ResyncTraffic)

(* The sleep at the top of the loop returns on time, or when the next
   heartbeat is due: no slave is silent long enough to be evicted. *)
ResyncSleep == SleepFor({0, HeartbeatPeriod - Sleep100 - Sleep25})

NextResync ==
    \/ ResyncArrive
    \/ ResyncSleep
    \/ PeriodicTx
    \/ SessionWeb
    \/ Receive
    \/ Frame

SpecResync == InitResync /\ [][NextResync]_vars

----------------------------------------------------------------------------
(* A vehicle that is being woken over an hour and a half. *)

InitWake ==
    /\ pc = "top"
    /\ InitLoop
    /\ InitBackground
    /\ codecIn = <<>>
    /\ codecOut = <<>>

NextWake ==
    \/ WakeVehicle
    \/ CarClock

SpecWake == InitWake /\ [][NextWake]_vars

----------------------------------------------------------------------------
(* total_amps_actual_all_twcs beside the running master: one or two slaves are
   registered and report the current their cars draw, silent slaves are
   evicted, and the total is taken between two iterations of the loop. *)

(* Sum of reportedAmpsActual over the first k entries of the list. *)
RECURSIVE SumReported(_, _, _)
SumReported(rr, obj, k) ==
    IF k = 0 THEN 0
    ELSE SumReported(rr, obj, k - 1) + obj[rr[k]].reportedAmpsActual

(* total_amps_actual_all_twcs: master.setTotalAmpsInUse(totalAmps) is inside
   the for loop, so it runs once per list entry and not at all for an empty
   list. *)
total_amps_actual_all_twcs(rr, obj, m) ==
    IF rr = <<>> THEN m
    ELSE [m EXCEPT !.totalAmpsInUse = SumReported(rr, obj, Len(rr))]

TotalsTraffic ==
    << { WireBytes(SlaveHeartbeatFrom(<<171, 205>>, OwnID, 1200)),
         WireBytes(SlaveHeartbeatFrom(<<17, 17>>, OwnID, 800)) },
       { WireBytes(SlaveHeartbeatFrom(<<171, 205>>, OwnID, 0)),
         WireBytes(SlaveHeartbeatFrom(<<17, 17>>, OwnID, 800)) } >>

InitTotals ==
    /\ pc = "top"
    /\ iter = MaxIter - BeatIters
    /\ \E n \in 1..2 : InitRunning(n, [i \in 1..3 |-> 3200])
    /\ sinceLastTx = HeartbeatPeriod
    /\ lastTWCResponseMsg = None

TotalsArrive == SerialArriveFrom(TotalsTraffic)

(* The call, and the state it returns in. *)
TotalAmps ==
    /\ pc = "top"
    /\ master' = total_amps_actual_all_twcs(slaveTWCRoundRobin, twc, master)
    /\ pc' = "totalled"
    /\ UNCHANGED <<iter, numInitMsgsToSend, fakeTWCID, spikeAmpsToCancel6ALimit,
                   lastTWCResponseMsg, regVars, rxVars, txVars, envVars,
                   codecVars, webVars, slaveVars, taskVars,
                   greenEnergyAmpsOffset, maxAmpsToDivideAmongSlaves,
                   policyVars, allocVars, exitVars>>

TotalReturned ==
    /\ pc = "totalled"
    /\ pc' = "top"
    /\ UNCHANGED <<iter, numInitMsgsToSend, fakeTWCID, spikeAmpsToCancel6ALimit,
                   lastTWCResponseMsg, regVars, rxVars, txVars, envVars,
                   codecVars, webVars, slaveVars, bgVars>>

NextTotals ==
    \/ TotalsArrive
    \/ BeatSleep
    \/ PeriodicTx
    \/ SessionWeb
    \/ Receive
    \/ Frame
    \/ TotalAmps
    \/ TotalReturned

SpecTotals == InitTotals /\ [][NextTotals]_vars

----------------------------------------------------------------------------
(* The task queue with both threads scheduled: the worker is not held back
   for ever, and a call of queue_background_task that has begun runs to its
   return.  Nothing obliges the main loop to queue a task. *)
SpecQueue ==
    /\ InitBackgroundTasks
    /\ [][NextBackground]_vars
    /\ WF_vars(Worker)
    /\ WF_vars(QueueCheck)
    /\ WF_vars(QueuePut)

----------------------------------------------------------------------------
(* C1: every payload of 13 or 15 bytes written by send_msg and read by the
   receive loop from its idle state comes out of unescape_msg as the payload
   followed by its checksum byte, of length 14 or 16, and passes the
   receiver's checksum test. *)
C1_RoundTrip ==
    pc = "done" =>
        /\ codecOut = Append(codecIn, TxChecksum(codecIn))
        /\ LengthOk(codecOut)
        /\ ChecksumOk(codecOut)

(* A round trip of a payload holding both C0 and DB whose checksum byte is
   DB as well. *)
C1_Witness ==
    /\ pc = "done"
    /\ C0 \in Range(codecIn) /\ DB \in Range(codecIn)
    /\ TxChecksum(codecIn) = DB
    /\ codecOut = Append(codecIn, DB)

(* C2: in the bytes written by send_msg no byte strictly between the first
   and the last is C0, and every DB between them is immediately followed by
   DC or DD, whatever the payload and its checksum byte. *)
C2_WireEscaped ==
    \A i \in 2..(Len(serOut) - 1) :
        /\ serOut[i] # C0
        /\ serOut[i] = DB =>
              i + 1 <= Len(serOut) - 1 /\ serOut[i + 1] \in {DC, DD}

(* Bytes written for a payload holding DB whose checksum byte is C0. *)
C2_Witness ==
    /\ pc = "wire"
    /\ serOut = WireBytes(codecIn)
    /\ DB \in Range(codecIn)
    /\ TxChecksum(codecIn) = C0

----------------------------------------------------------------------------
(* C3: the round-robin list and the dict hold the same set of slave ids, and
   no id is twice in the list. *)
C3_RegistryConsistent ==
    /\ Range(slaveTWCRoundRobin) = slaveTWCs
    /\ Len(slaveTWCRoundRobin) = Cardinality(slaveTWCs)

(* The registry at the end of a tick that evicted an idle slave, after the
   oldest-first eviction had made room for a fourth id. *)
C3_Witness ==
    /\ pc = "web"
    /\ numInitMsgsToSend = 0
    /\ stepTx = <<>>
    /\ sinceLastTx = HeartbeatPeriod
    /\ Len(slaveTWCRoundRobin) = 2
    /\ <<85, 85>> \in slaveTWCs

(* C4: new_slave leaves at most 3 sessions; adding a fourth id removes the
   head of the list, and the session returned is in the registry. *)
C4_AtMostThree ==
    [][ /\ Len(slaveTWCRoundRobin') <= 3
        /\ Cardinality(slaveTWCs') <= 3
        /\ \A id \in slaveTWCs' \ slaveTWCs :
             /\ twc'[id] # NoSlave
             /\ slaveTWCRoundRobin' =
                  (IF Len(slaveTWCRoundRobin) = 3
                   THEN Append(Tail(slaveTWCRoundRobin), id)
                   ELSE Append(slaveTWCRoundRobin, id)) ]_vars

(* A fourth id has been added: the first one registered is gone and the new
   one is the last of three. *)
C4_Witness ==
    /\ Len(slaveTWCRoundRobin) = 3
    /\ slaveTWCRoundRobin[3] = <<85, 85>>
    /\ slaveTWCRoundRobin[2] = <<34, 34>>
    /\ <<171, 205>> \notin slaveTWCs

(* C5: whenever a frame is written to the serial port, the serial input
   holds no unread byte and no partial frame is buffered. *)
C5_NoTxWhileReceiving ==
    lastTx.via # "none" => ~lastTx.pending /\ lastTx.partial = 0

(* C6 as written: any two consecutive transmissions are at least 100 ms
   apart. *)
C6_AllGaps ==
    lastTx.prevVia # "none" => lastTx.gap >= Sleep100

(* C6: a transmission that follows a startup link-ready or a periodic
   round-robin heartbeat is at least 100 ms after it. *)
C6_GapAfterPeriodic ==
    lastTx.prevVia \in {"startup", "periodic"} => lastTx.gap >= Sleep100

(* A frame forwarded by sendTWCMsg right after a round-robin heartbeat. *)
C6_Witness ==
    /\ lastTx.prevVia = "periodic"
    /\ lastTx.via = "web"
    /\ lastTx.gap = Sleep100

(* A heartbeat tick starts. *)
TickStarts ==
    /\ pc = "tx"
    /\ numInitMsgsToSend = 0
    /\ sinceLastTx >= HeartbeatPeriod
    /\ Len(slaveTWCRoundRobin) > 0

(* C7 as written: every registered slave silent for more than 26 s when a
   tick starts is absent from the registry when the tick ends. *)
C7_AllSilentEvicted ==
    [][ TickStarts =>
          \A id \in slaveTWCs :
             twc[id].sinceLastRx > SlaveTimeout => id \notin slaveTWCs' ]_vars

(* C7: the slave at the round-robin cursor, when silent for more than 26 s
   at the start of a tick, is absent from the registry when the tick ends. *)
C7_CursorSilentEvicted ==
    [][ TickStarts /\ idxSlaveToSendNextHeartbeat < Len(slaveTWCRoundRobin) =>
          LET id == slaveTWCRoundRobin[idxSlaveToSendNextHeartbeat + 1] IN
          twc[id].sinceLastRx > SlaveTimeout =>
              /\ id \notin slaveTWCs'
              /\ id \notin Range(slaveTWCRoundRobin')
              /\ lastTx' = lastTx ]_vars

(* The end of a tick that evicted the slave at the cursor and left another
   silent slave registered. *)
C7_Witness ==
    /\ pc = "web"
    /\ numInitMsgsToSend = 0
    /\ stepTx = <<>>
    /\ sinceLastTx = HeartbeatPeriod
    /\ Len(slaveTWCRoundRobin) > 0
    /\ \E id \in slaveTWCs : twc[id].sinceLastRx > SlaveTimeout

(* C8: the periodic transmissions begin with 5 linkready1 then 5 linkready2,
   numInitMsgsToSend going down by one a frame from 10 to 0, and no
   round-robin heartbeat is written while numInitMsgsToSend > 0. *)
C8_StartupBurst ==
    /\ [](/\ numInitMsgsToSend \in 0..10
          /\ sentLinkReady1 + sentLinkReady2 = 10 - numInitMsgsToSend
          /\ sentLinkReady1 = Min(10 - numInitMsgsToSend, 5))
    /\ [][ /\ numInitMsgsToSend' \in {numInitMsgsToSend, numInitMsgsToSend - 1}
           /\ numInitMsgsToSend > 0 /\ lastTx' # lastTx =>
                 lastTx'.via # "periodic"
           /\ pc = "tx" /\ numInitMsgsToSend > 0 =>
                 /\ numInitMsgsToSend' = numInitMsgsToSend - 1
                 /\ stepTx' = << IF numInitMsgsToSend > 5
                                 THEN MasterLinkReady1
                                 ELSE MasterLinkReady2 >> ]_vars

(* The first round-robin heartbeat, after the ten startup frames. *)
C8_Witness ==
    /\ numInitMsgsToSend = 0
    /\ sentLinkReady1 = 5
    /\ sentLinkReady2 = 5
    /\ lastTx.via = "periodic"
    /\ lastTx.prevVia = "startup"

(* A verified slave link-ready from a TWC other than the master is about to
   be dispatched. *)
LinkReadyInHand ==
    /\ pc = "frame"
    /\ ~UnescapeRaises
    /\ LET m == unescape_msg(msg, msgLen) IN
       /\ LengthOk(m)
       /\ ChecksumOk(m)
       /\ SubSeq(m, 1, 2) = <<253, 226>>
       /\ SubSeq(m, 8, 13) = Zeros(6)
       /\ SubSeq(m, 3, 4) # fakeTWCID

(* C9: a valid slave link-ready from an id not yet registered creates a
   session with protocolVersion 1 and minimum amps 5 when its unescaped
   length is 14, protocolVersion 2 and minimum amps 6 when it is 16; the
   session's maxAmps is the big-endian 16-bit field over 100 (the field
   itself, in centiamperes). *)
C9_SessionFromLinkReady ==
    [][ LinkReadyInHand =>
          LET m == unescape_msg(msg, msgLen)
              id == SubSeq(m, 3, 4)
          IN  id \notin slaveTWCs =>
                /\ id \in slaveTWCs'
                /\ twc'[id].protocolVersion = (IF Len(m) = 14 THEN 1 ELSE 2)
                /\ twc'[id].minAmpsTWCSupports = (IF Len(m) = 14 THEN 5 ELSE 6)
                /\ twc'[id].maxAmps = m[6] * 256 + m[7] ]_vars

(* Sessions created from a 14-byte 80 A link-ready and from a 16-byte 32 A
   one. *)
C9_Witness ==
    /\ twc[<<171, 205>>].protocolVersion = 1
    /\ twc[<<171, 205>>].minAmpsTWCSupports = 5
    /\ twc[<<171, 205>>].maxAmps = 8000
    /\ twc[<<17, 17>>].protocolVersion = 2
    /\ twc[<<17, 17>>].minAmpsTWCSupports = 6
    /\ twc[<<17, 17>>].maxAmps = 3200

(* C10: once a valid slave link-ready from an id other than the master's is
   processed, the next frame written is a master heartbeat FB E0 addressed
   to the sender: it is written by the step that processes the link-ready. *)
C10_ReplyToLinkReady ==
    [][ LinkReadyInHand =>
          LET id == SubSeq(unescape_msg(msg, msgLen), 3, 4) IN
          /\ Len(stepTx') = Len(stepTx) + 1
          /\ SubSeq(stepTx', 1, Len(stepTx)) = stepTx
          /\ SubSeq(stepTx'[Len(stepTx')], 1, 2) = <<251, 224>>
          /\ SubSeq(stepTx'[Len(stepTx')], 3, 4) = fakeTWCID
          /\ SubSeq(stepTx'[Len(stepTx')], 5, 6) = id
          /\ lastTx'.msg = stepTx'[Len(stepTx')] ]_vars

(* The reply to a fourth slave, sent while the startup burst is still in
   progress and three other slaves were registered. *)
C10_Witness ==
    /\ pc = "top"
    /\ numInitMsgsToSend > 0
    /\ lastTx.via = "reply"
    /\ SubSeq(lastTx.msg, 5, 6) = <<85, 85>>
    /\ Len(slaveTWCRoundRobin) = 3

----------------------------------------------------------------------------
(* C11: a session that stays in the registry keeps the protocolVersion and
   the minimum amps it got from its first link-ready, whatever link-ready of
   length 14 or 16 its id sends later. *)
C11_VersionSetOnce ==
    [][ \A id \in slaveTWCs \cap slaveTWCs' :
          /\ twc'[id].protocolVersion = twc[id].protocolVersion
          /\ twc'[id].minAmpsTWCSupports = twc[id].minAmpsTWCSupports ]_vars

(* The master has answered the 16-byte link-ready of the slave that
   registered with a 14-byte one, after it had registered a third slave. *)
C11_Witness ==
    /\ pc = "top"
    /\ lastTx.via = "reply"
    /\ SubSeq(lastTx.msg, 5, 6) = <<171, 205>>
    /\ <<34, 34>> \in slaveTWCs
    /\ twc[<<171, 205>>].protocolVersion = 1
    /\ twc[<<171, 205>>].minAmpsTWCSupports = 5

(* The wiringMaxAmps the sender of the link-ready in hand has before the
   handler's check: the session's when it is registered, a fresh session's
   otherwise. *)
WiringBefore(id, maxAmps) ==
    IF id \in slaveTWCs THEN twc[id].wiringMaxAmps
    ELSE TWCSlave(maxAmps).wiringMaxAmps

(* C12 as stated: a link-ready advertising less than the session's
   wiringMaxAmps makes wiringMaxAmps the advertised maxAmps, and one
   advertising at least as much leaves it unchanged. *)
C12_WiringCapped ==
    [][ LinkReadyInHand =>
          LET m == unescape_msg(msg, msgLen)
              id == SubSeq(m, 3, 4)
              maxAmps == m[6] * 256 + m[7]
              w == WiringBefore(id, maxAmps)
          IN  twc'[id].wiringMaxAmps = (IF maxAmps < w THEN maxAmps ELSE w)
      ]_vars

(* C12, amended: a link-ready advertising less than the session's
   wiringMaxAmps makes wiringMaxAmps one quarter of the advertised maxAmps,
   and one advertising at least as much leaves it unchanged. *)
C12_WiringQuartered ==
    [][ LinkReadyInHand =>
          LET m == unescape_msg(msg, msgLen)
              id == SubSeq(m, 3, 4)
              maxAmps == m[6] * 256 + m[7]
              w == WiringBefore(id, maxAmps)
          IN  twc'[id].wiringMaxAmps =
                  (IF maxAmps < w THEN maxAmps \div 4 ELSE w) ]_vars

(* A 32 A slave whose wiring limit of 40 A was lowered, next to an 80 A
   slave whose limit was left alone. *)
C12_Witness ==
    /\ <<C0, DB>> \in slaveTWCs
    /\ twc[<<C0, DB>>].maxAmps = 3200
    /\ twc[<<C0, DB>>].wiringMaxAmps = 800
    /\ <<171, 205>> \in slaveTWCs
    /\ twc[<<171, 205>>].wiringMaxAmps = wiringMaxAmpsPerTWC

(* C13: whenever a master heartbeat to a registered slave is built, the
   spike amperage in effect, spikeAmpsToCancel6ALimit, is 21 if that slave
   advertised 80 A or more and 16 otherwise, whatever other slaves are
   registered and in whatever order their link-readies arrived. *)
C13_SpikePerSlave ==
    [][ Len(stepTx') = Len(stepTx) + 1
        /\ SubSeq(stepTx'[Len(stepTx')], 1, 2) = <<251, 224>>
        => LET id == SubSeq(stepTx'[Len(stepTx')], 5, 6) IN
           id \in slaveTWCs' =>
               spikeAmpsToCancel6ALimit' =
                   (IF twc'[id].maxAmps >= 8000 THEN 21 ELSE 16) ]_vars

----------------------------------------------------------------------------
Max0(x) == IF x > 0 THEN x ELSE 0

(* C14: the value check_green_energy gets from getMaxAmpsToDivideAmongSlaves
   is max(0, G - max(0, C - L)) / 240, with G the sum of the generation
   sources and C the sum of the consumption sources, each raised to 0 when
   negative, and L = totalAmpsInUse * 240 if subtractChargerLoad, else 0; it
   is never negative.  Watts are compared in hundredths, amperage being in
   centiamperes. *)
C14_GreenBudget ==
    [][ bgPc = "acquire" /\ bgPc' = "release" =>
          LET G == 100 * Max0(SumValues(master.generationValues))
              C == 100 * Max0(SumValues(master.consumptionValues))
              L == IF master.subtractChargerLoad
                   THEN master.totalAmpsInUse * 240 ELSE 0
          IN  /\ maxAmpsToDivideAmongSlaves' * 240 = Max0(G - Max0(C - L))
              /\ maxAmpsToDivideAmongSlaves' >= 0 ]_vars

(* check_green_energy has just stored 99 A: 24000 W and -240 W generated,
   1200 W and -240 W consumed, less than the 10 A the chargers draw. *)
C14_Witness ==
    /\ bgPc = "release"
    /\ master.subtractChargerLoad
    /\ master.totalAmpsInUse = 1000
    /\ master.generationValues["HomeAssistant"] < 0
    /\ master.consumptionValues["Manual"] < 0
    /\ maxAmpsToDivideAmongSlaves = 9900

(* C15: the budget follows the precedence chargeNow, scheduled,
   nonScheduled, green energy, also right after a checkGreenEnergy task has
   written maxAmpsToDivideAmongSlaves. *)
C15_BudgetPrecedence ==
    [][ bgPc = "acquire" /\ bgPc' = "release" =>
          maxAmpsToDivideAmongSlaves' =
              PolicyBudget(getMaxAmpsToDivideAmongSlaves(master)) ]_vars

(* C16: maxAmpsToDivideAmongSlaves is at most wiringMaxAmpsAllTWCs in every
   reachable state, also right after check_green_energy has written it. *)
C16_BudgetWithinWiring ==
    maxAmpsToDivideAmongSlaves <= wiringMaxAmpsAllTWCs

----------------------------------------------------------------------------
(* Sum of lastAmpsOffered over the sessions of keys. *)
RECURSIVE SumOffered(_, _)
SumOffered(obj, keys) ==
    IF keys = {} THEN 0
    ELSE LET id == CHOOSE x \in keys : TRUE IN
         obj[id].lastAmpsOffered + SumOffered(obj, keys \ {id})

(* C17 as stated: after every allocator run the sum of lastAmpsOffered over
   the registered slaves is at most wiringMaxAmpsAllTWCs. *)
C17_SumWithinWiring ==
    SumOffered(twc, slaveTWCs) <= wiringMaxAmpsAllTWCs

(* C17, amended: after every allocator run the sum of lastAmpsOffered over
   the n registered slaves is at most the larger of wiringMaxAmpsAllTWCs and
   n times minAmpsPerTWC. *)
C17_SumWithinWiringOrMin ==
    SumOffered(twc, slaveTWCs) <=
        Max(wiringMaxAmpsAllTWCs, Cardinality(slaveTWCs) * minAmpsPerTWC)

(* Three slaves wired for 40 A share a budget of 60 A under a minimum of
   25 A: each share of 20 A was raised to 25 A. *)
C17_Witness ==
    /\ backgroundTasksLock = "free"
    /\ Cardinality(slaveTWCs) = 3
    /\ minAmpsPerTWC = 2500
    /\ maxAmpsToDivideAmongSlaves = wiringMaxAmpsAllTWCs
    /\ \A id \in slaveTWCs : twc[id].lastAmpsOffered = 2500

(* C18 as stated: after every allocator run with budgetA below
   minAmpsPerTWC every registered slave has lastAmpsOffered = 0, whether or
   not a slave is charging. *)
C18_StopBelowMin ==
    [][ /\ backgroundTasksLock = "bus"
        /\ backgroundTasksLock' = "free"
        /\ maxAmpsToDivideAmongSlaves' < minAmpsPerTWC
        => \A id \in slaveTWCs : twc'[id].lastAmpsOffered = 0 ]_vars

(* C18, amended: after every allocator run with budgetA below minAmpsPerTWC
   and at least one slave charging, every registered slave has
   lastAmpsOffered = 0. *)
C18_StopBelowMinWhenCharging ==
    [][ /\ backgroundTasksLock = "bus"
        /\ backgroundTasksLock' = "free"
        /\ maxAmpsToDivideAmongSlaves' < minAmpsPerTWC
        /\ Charging(twc, slaveTWCs) # {}
        => \A id \in slaveTWCs : twc'[id].lastAmpsOffered = 0 ]_vars

(* A run has stopped every slave while one of them was still drawing the
   current of its earlier offer. *)
C18_Witness ==
    /\ backgroundTasksLock = "free"
    /\ maxAmpsToDivideAmongSlaves < minAmpsPerTWC
    /\ Cardinality(slaveTWCs) >= 2
    /\ Charging(twc, slaveTWCs) # {}
    /\ \A id \in slaveTWCs : twc[id].lastAmpsOffered = 0

(* C19: every session's lastAmpsOffered is between 0 and the smaller of its
   maxAmps and its wiringMaxAmps, also in the heartbeat cycle that carries the
   spike and when a share is raised to minAmpsPerTWC. *)
C19_OfferWithinLimits ==
    \A id \in slaveTWCs :
        /\ 0 <= twc[id].lastAmpsOffered
        /\ twc[id].lastAmpsOffered <= Min(twc[id].maxAmps, twc[id].wiringMaxAmps)

(* The heartbeat just built carries the spike; one slave's share was raised
   to minAmpsPerTWC, another's was held at its wiringMaxAmps of 8 A, below
   the minimum. *)
C19_Witness ==
    /\ hbAmps = spikeAmpsToCancel6ALimit * 100
    /\ minAmpsPerTWC = 1200
    /\ \E id \in slaveTWCs :
          /\ twc[id].wiringMaxAmps = wiringMaxAmpsPerTWC
          /\ twc[id].lastAmpsOffered = minAmpsPerTWC
          /\ maxAmpsToDivideAmongSlaves \div Cardinality(slaveTWCs)
                < minAmpsPerTWC
    /\ \E id \in slaveTWCs :
          /\ twc[id].wiringMaxAmps = 800
          /\ twc[id].lastAmpsOffered = 800

----------------------------------------------------------------------------
(* Tasks with cmd c that are queued or held by the background thread. *)
QueuedOrExecuting(c) ==
    Cardinality({ i \in 1..Len(backgroundTasksQueue) :
                    backgroundTasksQueue[i].cmd = c })
      + (IF bgTask.cmd = c THEN 1 ELSE 0)

(* C20: however the calls of queue_background_task on the main thread
   interleave with the background thread, at most one task of each cmd is
   queued or executing, and a call whose cmd is in backgroundTasksCmds
   returns with the queue and the tag set unchanged. *)
C20_OneTaskPerCmd ==
    /\ [](\A t \in Tasks : QueuedOrExecuting(t.cmd) <= 1)
    /\ [][ /\ busPc = "check"
           /\ busPc' = "idle"
           /\ busTask.cmd \in backgroundTasksCmds
           => /\ backgroundTasksQueue' = backgroundTasksQueue
              /\ backgroundTasksCmds' = backgroundTasksCmds ]_vars

(* queue_background_task is at its test with a second 'charge' task while
   the background thread has finished the first and not yet deleted its tag,
   two other tasks waiting in the queue. *)
C20_Witness ==
    /\ busPc = "check"
    /\ busTask = [cmd |-> "charge", charge |-> FALSE]
    /\ bgTask = [cmd |-> "charge", charge |-> TRUE]
    /\ bgPc = "del"
    /\ "charge" \in backgroundTasksCmds
    /\ Len(backgroundTasksQueue) = 2

----------------------------------------------------------------------------
(* C21: the handler of a task having finished, in whatever way including by
   raising an exception, the task's cmd is removed from backgroundTasksCmds
   and task_done is called: every cmd in backgroundTasksCmds belongs to a
   task that is about to be put, queued, or held by the background thread
   with its handler running or its del still to come, and unfinished_tasks
   counts the tasks queued and the one whose handler has not finished. *)
C21_FinishedTaskUntagged ==
    /\ \A c \in backgroundTasksCmds :
          \/ busPc = "put" /\ busTask.cmd = c
          \/ \E i \in 1..Len(backgroundTasksQueue) :
                backgroundTasksQueue[i].cmd = c
          \/ bgTask.cmd = c /\ bgPc \in {"run", "acquire", "release", "del"}
    /\ unfinished_tasks =
          Len(backgroundTasksQueue)
            + (IF bgPc \in {"run", "acquire", "release", "del"} THEN 1 ELSE 0)

----------------------------------------------------------------------------
(* check_green_energy stores its readings in master. *)
WritesSources == bgPc = "run" /\ bgPc' = "acquire"

(* check_green_energy assigns maxAmpsToDivideAmongSlaves. *)
WritesBudget == bgPc = "acquire" /\ bgPc' = "release"

(* C22 as stated: every write the checkGreenEnergy task makes to the
   generation sources, the consumption sources and
   maxAmpsToDivideAmongSlaves happens while backgroundTasksLock is held by
   the task. *)
C22_AllWritesUnderLock ==
    [][ WritesSources \/ WritesBudget => backgroundTasksLock' = "bg" ]_vars

(* C22, amended: the write the checkGreenEnergy task makes to
   maxAmpsToDivideAmongSlaves happens while backgroundTasksLock is held by
   the task, which holds it from that write to its release only; its writes
   to the generation sources and the consumption sources happen before it
   acquires the lock, while it does not hold it. *)
C22_BudgetWriteUnderLock ==
    /\ [](backgroundTasksLock = "bg" <=> bgPc = "release")
    /\ [][ /\ WritesBudget => backgroundTasksLock' = "bg"
           /\ WritesSources =>
                 /\ backgroundTasksLock # "bg"
                 /\ backgroundTasksLock' # "bg" ]_vars

(* The task holds the lock, having stored 20 A from readings it took without
   the lock: 4800 W generated, the offset of -240 W the only consumption. *)
C22_Witness ==
    /\ bgPc = "release"
    /\ backgroundTasksLock = "bg"
    /\ bgTask.cmd = "checkGreenEnergy"
    /\ master.generationValues["Fronius"] = 4800
    /\ master.consumptionValues["Manual"] = -240
    /\ maxAmpsToDivideAmongSlaves = 2000

----------------------------------------------------------------------------
(* The port is closed only once every task queued has completed: none is
   queued, none is held by the background thread, and task_done has been
   called for each. *)
ClosedOnlyAfterTasks ==
    ~serIsOpen =>
        /\ unfinished_tasks = 0
        /\ backgroundTasksQueue = <<>>
        /\ bgTask = NoTask

(* C23: after KeyboardInterrupt has reached the main loop the process
   eventually closes the serial port, and it closes it only after every
   background task queued before the signal has completed. *)
C23_ShutdownCloses ==
    /\ [](ClosedOnlyAfterTasks)
    /\ (busPc = "join" ~> ~serIsOpen)

----------------------------------------------------------------------------
(* Index of the last C0 of s before position n, 0 when there is none. *)
RECURSIVE LastC0Before(_, _)
LastC0Before(s, n) ==
    IF n <= 1 THEN 0
    ELSE IF s[n - 1] = C0 THEN n - 1
    ELSE LastC0Before(s, n - 1)

(* The frame the bus delivered last: the bytes of the receive buffer from
   the C0 that opened it to the C0 that closed it, unescaped. *)
FrameAtEnd ==
    LET i == LastC0Before(msg, msgLen)
        u == UnescapeLoop(SubSeq(msg, i, msgLen))
    IN  IF i = 0 THEN <<>> ELSE SubSeq(u, 2, Len(u) - 1)

(* The receive buffer still holds the bytes of an iteration that ended in an
   exception: only then does a C0 precede the C0 that opened the last frame,
   the loop starting a message on a C0 and leaving on the next one. *)
AfterException == LastC0Before(msg, msgLen) > 1

(* After an exception the receive loop has left with a whole slave
   link-ready, sound in length and checksum, from a TWC other than the
   master. *)
LinkReadyReceived ==
    /\ pc = "frame"
    /\ AfterException
    /\ LengthOk(FrameAtEnd)
    /\ ChecksumOk(FrameAtEnd)
    /\ IsSlaveLinkReady(FrameAtEnd)
    /\ LinkReadySender(FrameAtEnd) # fakeTWCID

(* C24: an exception raised inside an iteration of the main loop does not
   end the loop, which goes on to further iterations that send the periodic
   frames and process the frames received afterwards: the main thread is
   always at a position of its loop, and a whole slave link-ready the receive
   loop delivers after an exception registers its sender and is answered. *)
C24_LoopGoesOn ==
    /\ [](pc \in {"top", "tx", "web", "rx", "frame"})
    /\ [][ LinkReadyReceived =>
              /\ LinkReadySender(FrameAtEnd) \in slaveTWCs'
              /\ lastTx'.via = "reply"
              /\ SubSeq(lastTx'.msg, 5, 6) = LinkReadySender(FrameAtEnd) ]_vars

----------------------------------------------------------------------------
(* C28: a sendTWCMsg request whose hex digits make whole bytes, and whose
   frame, trimmed or padded to the length in use, starts with FC 19, FC 1A or
   FB E8, writes nothing to the serial port and leaves timeLastTx and
   lastTWCResponseMsg unchanged; with every other type prefix the frame is
   transmitted exactly once. *)
C28_DangerousNotSent ==
    [][ /\ pc = "web"
        /\ webMsg'.cmd = "sendTWCMsg"
        /\ Len(webMsg'.hex) > 0
        /\ Len(webMsg'.hex) % 2 = 0
        => LET n == Len(webMsg'.hex) \div 2
               given == [i \in 1..n |->
                           webMsg'.hex[2 * i - 1] * 16 + webMsg'.hex[2 * i]]
               frame == [i \in 1..SendTWCMsgLen |->
                           IF i <= n THEN given[i] ELSE 0]
           IN  IF <<frame[1], frame[2]>>
                     \in {<<252, 25>>, <<252, 26>>, <<251, 232>>}
               THEN /\ serOut' = serOut
                    /\ stepTx' = stepTx
                    /\ lastTx' = lastTx
                    /\ sinceLastTx' = sinceLastTx
                    /\ lastTWCResponseMsg' = lastTWCResponseMsg
               ELSE /\ stepTx' = Append(stepTx, frame)
                    /\ serOut' = WireBytes(frame)
                    /\ sinceLastTx' = 0 ]_vars

(* With a protocol 1 slave at the head of the list a request of 17 bytes
   that starts with FC 1A was refused: nothing was written, and the response
   captured earlier is still there. *)
C28_Witness ==
    /\ pc = "rx"
    /\ webMsg = sendTWCMsg(HexDigits(<<252, 26, 119, 119>> \o Zeros(13)))
    /\ Len(slaveTWCRoundRobin) > 0
    /\ twc[slaveTWCRoundRobin[1]].protocolVersion = 1
    /\ serOut = <<>>
    /\ lastTWCResponseMsg = Received(VinReply(<<171, 205>>))

----------------------------------------------------------------------------
(* The frame the main loop has just received, unescaped. *)
FrameReceived == unescape_msg(msg, msgLen)

(* The frame received fails the length test or the checksum test. *)
BadFrameReceived ==
    /\ pc = "frame"
    /\ ~UnescapeRaises
    /\ ~(LengthOk(FrameReceived) /\ ChecksumOk(FrameReceived))

(* A step that changes neither the registry, nor a session, nor the own id,
   and writes nothing to the serial port. *)
NoEffectOnBus ==
    /\ slaveTWCs' = slaveTWCs
    /\ slaveTWCRoundRobin' = slaveTWCRoundRobin
    /\ twc' = twc
    /\ fakeTWCID' = fakeTWCID
    /\ stepTx' = stepTx
    /\ serOut' = serOut
    /\ lastTx' = lastTx

(* C25: a received frame whose unescaped length is neither 14 nor 16, or
   whose checksum does not match, is dropped with no effect: the registry,
   every session, the own id and the value getLastTWCMsgResponse returns are
   unchanged, and nothing is transmitted in response. *)
C25_BadFrameNoEffect ==
    [][ BadFrameReceived
        => /\ NoEffectOnBus
           /\ getLastTWCMsgResponse' = getLastTWCMsgResponse ]_vars

(* C26: in master mode a received frame of type FC E1 or FC E2 makes the
   process transmit nothing, leaves the registry and numInitMsgsToSend
   unchanged, and the loop goes on to its next iteration. *)
C26_PeerMasterIgnored ==
    [][ /\ pc = "frame"
        /\ FrameReceived[1] = 252
        /\ FrameReceived[2] \in {225, 226}
        => /\ NoEffectOnBus
           /\ numInitMsgsToSend' = numInitMsgsToSend
           /\ pc' = "top" ]_vars

(* With two slaves registered the FC E2 link-ready of a peer master has been
   received and dispatched: it is the frame kept as the last response, and
   the two slaves are the registry still. *)
C26_Witness ==
    /\ pc = "top"
    /\ lastTWCResponseMsg = Received(PeerMasterLinkReady(226, <<85, 85>>, 7))
    /\ Len(slaveTWCRoundRobin) = 2
    /\ numInitMsgsToSend = 0

----------------------------------------------------------------------------
(* Types of the frames the TWCs repeat: master heartbeat, slave heartbeat,
   master linkready1 and linkready2, slave link-ready, voltage request,
   voltage report. *)
RepeatedTypes ==
    {<<251, 224>>, <<253, 224>>, <<252, 225>>, <<251, 226>>, <<253, 226>>,
     <<251, 235>>, <<253, 235>>}

(* The frame received is of a type that is not repeated. *)
UnusualFrameReceived ==
    /\ pc = "frame"
    /\ ~UnescapeRaises
    /\ SubSeq(FrameReceived, 1, 2) \notin RepeatedTypes

(* The web phase transmits a sendTWCMsg command. *)
CommandSent == pc = "web" /\ stepTx' # stepTx

(* C29 as stated: getLastTWCMsgResponse returns the most recently received
   frame whose type is not one of the periodic types, after any sequence of
   received frames and sendTWCMsg requests. *)
C29_MostRecentKept ==
    [][ UnusualFrameReceived
        => getLastTWCMsgResponse' = hex_str(FrameReceived) ]_vars

(* C29 amended: getLastTWCMsgResponse returns the first frame of a type
   that is not periodic received since the last sendTWCMsg command was
   transmitted, verified or not, and 'None' while there is none: transmitting
   the command empties the value kept, a frame of such a type is kept only
   while the value is empty, and nothing else changes it. *)
C29_FirstResponseKept ==
    [][ /\ lastTWCResponseMsg' =
               (IF CommandSent
                THEN <<>>
                ELSE IF UnusualFrameReceived /\ lastTWCResponseMsg = <<>>
                THEN FrameReceived
                ELSE lastTWCResponseMsg)
        /\ pc = "web" /\ webMsg'.cmd = "getLastTWCMsgResponse"
           => webResponseMsg' =
                  (IF lastTWCResponseMsg \in {None, <<>>}
                   THEN NoneStr
                   ELSE hex_str(lastTWCResponseMsg)) ]_vars

(* The web interface was given the VIN frame of slave ABCD as the response
   after a second frame of unusual type had been received as well. *)
C29_Witness ==
    /\ webResponseMsg = hex_str(Received(VinReply(<<171, 205>>)))
    /\ framesSent = 2
    /\ serIn = <<>>
    /\ msgLen = 0

----------------------------------------------------------------------------
(* The periodic transmit phase sends a heartbeat. *)
PeriodicHeartbeatSent ==
    /\ pc = "tx"
    /\ numInitMsgsToSend = 0
    /\ stepTx' # stepTx

(* C30: in master mode, while the registry holds n >= 1 slaves and no slave
   is added or removed, consecutive periodic heartbeats go to the slaves
   cyclically in insertion order: a periodic heartbeat is addressed to the
   slave at the cursor and moves the cursor to the next slave of the list,
   the first after the last, and no other step moves the cursor; so each
   slave receives one of every n consecutive periodic heartbeats. *)
C30_RoundRobin ==
    [][ /\ Len(slaveTWCRoundRobin) >= 1
        /\ slaveTWCRoundRobin' = slaveTWCRoundRobin
        /\ slaveTWCs' = slaveTWCs
        => /\ idxSlaveToSendNextHeartbeat < Len(slaveTWCRoundRobin)
           /\ IF PeriodicHeartbeatSent
              THEN /\ Len(stepTx') = 1
                   /\ SubSeq(stepTx'[1], 1, 2) = <<251, 224>>
                   /\ SubSeq(stepTx'[1], 5, 6) =
                          slaveTWCRoundRobin[idxSlaveToSendNextHeartbeat + 1]
                   /\ idxSlaveToSendNextHeartbeat' =
                          (idxSlaveToSendNextHeartbeat + 1)
                              % Len(slaveTWCRoundRobin)
              ELSE idxSlaveToSendNextHeartbeat' = idxSlaveToSendNextHeartbeat
      ]_vars

(* Three slaves, no traffic on the bus: after four periodic heartbeats the
   last one went to the first slave again and the cursor is at the second. *)
C30_Witness ==
    /\ Len(slaveTWCRoundRobin) = 3
    /\ framesSent = 0
    /\ iter = MaxIter - BeatIters + 4
    /\ pc = "web"
    /\ lastTx.via = "periodic"
    /\ lastTx.prevVia = "periodic"
    /\ SubSeq(lastTx.msg, 5, 6) = slaveTWCRoundRobin[1]
    /\ idxSlaveToSendNextHeartbeat = 1

----------------------------------------------------------------------------
(* Types of the seven frames of C27: master linkready1, master linkready2,
   master heartbeat, slave link-ready, slave heartbeat, voltage request,
   voltage report. *)
ConflictTypes ==
    {<<252, 225>>, <<251, 226>>, <<251, 224>>, <<253, 226>>, <<253, 224>>,
     <<251, 235>>, <<253, 235>>}

(* In slave mode a verified frame of one of the types has been received
   whose sender id is the own id. *)
OwnIdReceived(types) ==
    /\ pc = "frame"
    /\ configFakeMaster # 1
    /\ ~UnescapeRaises
    /\ LengthOk(FrameReceived) /\ ChecksumOk(FrameReceived)
    /\ SubSeq(FrameReceived, 1, 2) \in types
    /\ SubSeq(FrameReceived, 3, 4) = fakeTWCID

(* The own id and sign are given the values drawn at random. *)
Reseeded == fakeTWCID' \in RandomIDs /\ slaveSign' \in RandomSigns

(* C27: in slave-impersonation mode, for every inbound frame type (master
   linkready1, master linkready2, master heartbeat, slave link-ready, slave
   heartbeat, voltage request, voltage report) whose sender id equals the
   own TWCID, the own id is reseeded with two random bytes and the own sign
   with one random byte. *)
C27_ReseedOnOwnId ==
    [][ OwnIdReceived(ConflictTypes) => Reseeded ]_vars

----------------------------------------------------------------------------
(* C31: in every reachable state idxSlaveToSendNextHeartbeat is a valid
   cursor: 0 when the registry is empty, and otherwise at least 0 and less
   than len(slaveTWCRoundRobin), whatever link-ready additions, oldest-first
   evictions by new_slave and idle evictions have happened. *)
C31_CursorValid ==
    IF slaveTWCRoundRobin = <<>>
    THEN idxSlaveToSendNextHeartbeat = 0
    ELSE /\ idxSlaveToSendNextHeartbeat >= 0
         /\ idxSlaveToSendNextHeartbeat < Len(slaveTWCRoundRobin)

(* A fourth slave has been added and the oldest dropped by new_slave; the
   list holds three slaves and the cursor is at the last of them. *)
C31_Witness ==
    /\ Len(slaveTWCRoundRobin) = 3
    /\ <<85, 85>> \in slaveTWCs
    /\ <<171, 205>> \notin slaveTWCs
    /\ idxSlaveToSendNextHeartbeat = 2

----------------------------------------------------------------------------
(* A frame of the given type has been received that passes the length and
   checksum tests. *)
ValidFrameReceived(type) ==
    /\ pc = "frame"
    /\ ~UnescapeRaises
    /\ LengthOk(FrameReceived) /\ ChecksumOk(FrameReceived)
    /\ SubSeq(FrameReceived, 1, 2) = type

(* C32: in master mode a session is created only by a valid slave
   link-ready (FD E2) whose sender id differs from the master's own id; a
   slave heartbeat (FD E0) from an id that is not in the registry creates no
   session, changes no session and triggers no transmission. *)
C32_SessionFromLinkReadyOnly ==
    [][ /\ \A id \in slaveTWCs' \ slaveTWCs :
             /\ ValidFrameReceived(<<253, 226>>)
             /\ SubSeq(FrameReceived, 3, 4) = id
             /\ id # fakeTWCID
        /\ ValidFrameReceived(<<253, 224>>)
              /\ SubSeq(FrameReceived, 3, 4) \notin slaveTWCs
           => /\ slaveTWCs' = slaveTWCs
              /\ slaveTWCRoundRobin' = slaveTWCRoundRobin
              /\ twc' = twc
              /\ stepTx' = stepTx
              /\ serOut' = serOut ]_vars

(* The heartbeat of slave 5555, which never sent a link-ready, has been
   received whole and is about to be dispatched. *)
C32_Witness ==
    /\ ValidFrameReceived(<<253, 224>>)
    /\ SubSeq(FrameReceived, 3, 4) = <<85, 85>>
    /\ <<85, 85>> \notin slaveTWCs
    /\ slaveTWCs # {}

----------------------------------------------------------------------------
(* Types of the frames a slave sends: link-ready, heartbeat, voltage and
   kWh report, VIN report. *)
SlaveFrameTypes == {<<253, 226>>, <<253, 224>>, <<253, 235>>, <<253, 238>>}

(* A valid frame of one of the types has been received from a slave that is
   in the registry. *)
FrameOfRegisteredSlave(types) ==
    /\ \E type \in types : ValidFrameReceived(type)
    /\ SubSeq(FrameReceived, 3, 4) \in slaveTWCs

(* C33: in master mode every valid frame received from a registered slave
   (link-ready, heartbeat addressed to any receiver id, voltage and kWh
   report, VIN report) sets that session's timeLastRx to the time of
   reception, so that a slave that keeps sending valid frames is never
   evicted for silence. *)
C33_FramesRefreshSession ==
    [][ FrameOfRegisteredSlave(SlaveFrameTypes)
        => twc'[SubSeq(FrameReceived, 3, 4)].sinceLastRx = 0 ]_vars

----------------------------------------------------------------------------
(* The frame written last in this iteration of the loop. *)
LastWritten == stepTx[Len(stepTx)]

(* C34: the heartbeat tick that evicts a slave for silence transmits no
   heartbeat, and afterwards no master heartbeat addressed to its id is
   transmitted until a new slave link-ready from that id is received: a
   master heartbeat the loop writes is addressed to a slave that is in the
   registry, and an id enters the registry only when its link-ready is
   received. *)
C34_NoHeartbeatAfterEviction ==
    [][ /\ pc = "tx" /\ slaveTWCs' # slaveTWCs
           => /\ slaveTWCs' \subseteq slaveTWCs
              /\ stepTx' = stepTx
              /\ serOut' = serOut
        /\ Len(stepTx') > Len(stepTx) /\ SubSeq(LastWritten', 1, 2) = <<251, 224>>
           => SubSeq(LastWritten', 5, 6) \in slaveTWCs'
        /\ \A id \in slaveTWCs' \ slaveTWCs :
             /\ ValidFrameReceived(<<253, 226>>)
             /\ SubSeq(FrameReceived, 3, 4) = id ]_vars

(* Slave 1111 has been evicted for silence in an earlier tick; in this tick
   the periodic heartbeat went to slave ABCD, the one still registered. *)
C34_Witness ==
    /\ pc = "web"
    /\ slaveTWCs = {<<171, 205>>}
    /\ twc[<<17, 17>>] = NoSlave
    /\ Len(stepTx) = 1
    /\ SubSeq(stepTx[1], 1, 2) = <<251, 224>>
    /\ SubSeq(stepTx[1], 5, 6) = <<171, 205>>

----------------------------------------------------------------------------
(* The burst has arrived and the receive loop has read all of it. *)
BurstRead == framesSent = 1 /\ serIn = <<>> /\ pc = "top"

(* C35: the receiver resynchronizes after corruption: whatever bytes were
   received before it (a truncated frame, an over-long frame missing its
   closing C0, noise bytes), a well-formed frame that is then received in
   full is delivered to dispatch; here the frame is the link-ready of slave
   ABCD, whose dispatch registers the slave. *)
C35_Resynchronizes ==
    BurstRead => <<171, 205>> \in slaveTWCs

----------------------------------------------------------------------------
(* Time since the first failed wake attempt, at the last attempt. *)
WakeAge == wake.at - vehicle.firstWakeAttemptTime

(* The last call sent wake_up and the vehicle did not come online. *)
WakeFailed == wake.attempted /\ wake.state # "online"

(* C36: while a vehicle fails to come online, the delay before the next wake
   attempt is 30 s while at most 10 min have passed since the first failed
   attempt, 5 min while at most 70 min have passed, and 15 min beyond that,
   whatever state the vehicle reports; the failure is reported once more than
   1 h has passed since the first attempt. *)
C36_WakeSchedule ==
    WakeFailed =>
        /\ vehicle.delayNextWakeAttempt =
               (IF WakeAge <= 600 THEN 30
                ELSE IF WakeAge <= 4200 THEN 300
                ELSE 900)
        /\ wake.reported <=> WakeAge > 3600

----------------------------------------------------------------------------
(* C37: after total_amps_actual_all_twcs returns, master.totalAmpsInUse equals
   the sum of reportedAmpsActual over all slaves in the registry, and equals
   0 when the registry is empty, including right after the last slave has
   been evicted. *)
C37_TotalIsSum ==
    pc = "totalled" =>
        master.totalAmpsInUse =
            SumReported(slaveTWCRoundRobin, twc, Len(slaveTWCRoundRobin))

----------------------------------------------------------------------------
(* A valid slave link-ready that carries the master's own id is in hand. *)
OwnIdLinkReadyReceived ==
    /\ ValidFrameReceived(<<253, 226>>)
    /\ SubSeq(FrameReceived, 3, 4) = fakeTWCID

(* C38: in master mode, when a slave link-ready carries the master's own
   TWCID, the sender is not added to the registry, no heartbeat is sent to
   it, and numInitMsgsToSend is set to 10 so that the master sends its 5
   linkready1 and 5 linkready2 frames again. *)
C38_OwnIdRestartsBurst ==
    [][ OwnIdLinkReadyReceived =>
            /\ fakeTWCID \notin slaveTWCs'
            /\ stepTx' = stepTx
            /\ numInitMsgsToSend' = 10 ]_vars

----------------------------------------------------------------------------
(* The slave the next periodic heartbeat is due to when the slaves in kept
   remain: the first of them in the order of the list rr, starting at the
   cursor idx and wrapping around. *)
NextInTurn(rr, idx, kept) ==
    LET n == Len(rr)
        at(j) == rr[((idx + j) % n) + 1]
        js == { j \in 0..(n - 1) : at(j) \in kept }
        first == CHOOSE j \in js : \A k \in js : j <= k
    IN  at(first)

(* A slave leaves the registry and another one stays. *)
SlaveRemoved ==
    /\ slaveTWCs \ slaveTWCs' # {}
    /\ slaveTWCs \cap slaveTWCs' # {}
    /\ idxSlaveToSendNextHeartbeat < Len(slaveTWCRoundRobin)

(* C39: when a slave is removed from the registry, by idle eviction at the
   cursor or by oldest-first eviction in new_slave, no remaining slave is
   skipped: the next periodic heartbeat goes to the slave that follows the
   last-served slave in round-robin order. *)
C39_NoSlaveSkipped ==
    [][ SlaveRemoved =>
            slaveTWCRoundRobin'[idxSlaveToSendNextHeartbeat' + 1] =
                NextInTurn(slaveTWCRoundRobin, idxSlaveToSendNextHeartbeat,
                           slaveTWCs \cap slaveTWCs') ]_vars

----------------------------------------------------------------------------
ChargeTask(charge) == [cmd |-> "charge", charge |-> charge]

(* queue_background_task has been called with cmd 'charge' and charge=False
   while a 'charge' task with charge=True is queued or executing. *)
StopRequestedDuringStart ==
    /\ busPc = "check"
    /\ busTask = ChargeTask(FALSE)
    /\ \/ ChargeTask(TRUE) \in Range(backgroundTasksQueue)
       \/ bgPc = "run" /\ bgTask = ChargeTask(TRUE)

(* The worker is at car_api_charge(False). *)
StopInvoked == bgPc = "run" /\ bgTask = ChargeTask(FALSE)

(* C40: a background request is never lost: if queue_background_task is
   called with cmd 'charge' and charge=False while a 'charge' task with
   charge=True is queued or executing, then car_api_charge(False) is
   eventually invoked by the worker. *)
C40_StopNeverLost == StopRequestedDuringStart ~> StopInvoked

=============================================================================
